---- MODULE Spec2Model ----
(***************************************************************************)
(* State-machine model of the ClusterRoleTemplateBinding (CRTB) lifecycle   *)
(* handler of pkg/controllers/management/auth/crtb_handler.go, of the token *)
(* store of pkg/ext/stores/tokens and of the user-activity store of         *)
(* pkg/ext/stores/useractivity.                                             *)
(*                                                                          *)
(* Strings that the code inspects character by character (user names and    *)
(* principal ids, compared with strings.HasSuffix) are sequences of         *)
(* one-character strings; the empty string is <<>>.  Label keys and values  *)
(* are TLA+ strings.                                                        *)
(***************************************************************************)
EXTENDS Integers, Sequences, FiniteSets, TLC

VARIABLES
    subj,       \* one call of reconcileSubject: its input, the collaborators' answers, its result
    crtbStore,  \* the CRTBs as the API server holds them
    crtbCache,  \* the CRTBs as the informer delivers them to the handler
    crbs,       \* ClusterRoleBindings in the API server: name -> labels
    crbCache,   \* ClusterRoleBindings as crbLister sees them
    rbs,        \* RoleBindings in the API server: <<namespace, name>> -> labels
    rbCache,    \* RoleBindings as rbLister sees them
    reqs,       \* the requirements getLabelRequirements adds to the legacy selectors
    ownerRole,  \* whether the role template the CRTBs reference is an owner role
    pc,         \* where the handler invocation in progress stands ("idle": none)
    run,        \* the locals of the handler invocation in progress
    last,       \* what the last finished handler invocation did and returned
    nEvents,    \* handler invocations so far
    nFaults,    \* calls that failed in the handler invocation in progress
    secrets,    \* the secrets of namespace cattle-token-data in the API server: name -> data
    secretCache, \* the same secrets as secretCache sees them
    tokenCall,  \* the last call of the token store: its request and what it returned
    tokens,     \* the tokens the token controller serves: name -> user and idle timeout
    uaCall,     \* the last call of the user-activity store: its request and what it returned
    apiServer,  \* the extension API server: its resource lists and its delegates
    router,     \* the group/versions whose routes RegisterRoutes put on the router
    apiCall,    \* the last request the router served: its path and the response
    ulCall,     \* the last call of deleteAllCRTB or deleteAllPRTB: its input, the deletes, the result
    fake,       \* the fake clientset: the reaction its next list invocation gets
    machinesCall \* the last call of FakeCustomMachines.List: its options and what it returned

\* the state of the CRTB handler and of its cluster
handlerVars == <<subj, crtbStore, crtbCache, crbs, crbCache, rbs, rbCache, reqs, ownerRole,
                 pc, run, last, nEvents, nFaults>>
\* the state of the two REST stores
storeVars == <<secrets, secretCache, tokenCall, tokens, uaCall>>
\* the state of the extension API server, of the user lifecycle and of the fake clientset
extVars == <<apiServer, router, apiCall, ulCall, fake, machinesCall>>
vars == <<handlerVars, storeVars, extVars>>

(***************************************************************************)
(* Bounds of the model                                                      *)
(***************************************************************************)
\* longest list of principal ids a looked-up user carries
MaxPrincipals == 2
\* handler invocations (watch events delivered) in one behaviour
MaxEvents == 2
\* calls of collaborators and of the API server that fail in one handler invocation
MaxFaults == 1
\* the latest time of a request to the user-activity store, in seconds
MaxNow == 2
\* the largest value of the setting auth-user-session-idle-ttl-minutes
MaxIdleTTL == 2

(***************************************************************************)
(* Values                                                                   *)
(***************************************************************************)
\* the Go empty string
Empty == <<>>
\* a nil error
Nil == "nil"

ErrEnsureUser == "EnsureUser failed"
ErrUserGet == "userLister.Get failed"
ErrNoSubject == "has no subject"

\* user names and principal ids of the model
UserA == <<"u", "1">>
UserB == <<"u", "2">>
PrincipalLocalA == <<"l", "/", "u", "1">>
PrincipalGithubA == <<"g", "/", "u", "1">>
PrincipalLocalB == <<"l", "/", "u", "2">>
GroupG == <<"g", "r">>
PrincipalGroupG == <<"x", "/", "g", "r">>
DisplayA == <<"A">>

UserNames == {Empty, UserA}
UserPrincipalNames == {Empty, PrincipalLocalA}
GroupNames == {Empty, GroupG}
GroupPrincipalNames == {Empty, PrincipalGroupG}
DisplayNames == {Empty, DisplayA}
PrincipalIDs == {PrincipalLocalA, PrincipalGithubA, PrincipalLocalB}

\* the subject fields of a v3.ClusterRoleTemplateBinding, with the display-name annotation
BindingsNamed(names) ==
    [Name : names,
     UserName : UserNames,
     UserPrincipalName : UserPrincipalNames,
     GroupName : GroupNames,
     GroupPrincipalName : GroupPrincipalNames,
     DisplayName : DisplayNames]
Bindings == BindingsNamed({"crtb1"})

\* a nil *ClusterRoleTemplateBinding
NilBinding ==
    [Name |-> "nil", UserName |-> Empty, UserPrincipalName |-> Empty,
     GroupName |-> Empty, GroupPrincipalName |-> Empty, DisplayName |-> Empty]

\* what userMGR.EnsureUser answers: an error, or a user (whose name is never empty)
EnsureAnswers == [err : {Nil, ErrEnsureUser}, Name : {UserA, UserB}]

SeqsUpTo(S, n) == UNION {[1..k -> S] : k \in 0..n}

\* what userLister.Get answers: an error, or a user with its principal ids
GetAnswers == [err : {Nil, ErrUserGet}, PrincipalIDs : SeqsUpTo(PrincipalIDs, MaxPrincipals)]

(***************************************************************************)
(* reconcileSubject                                                         *)
(***************************************************************************)
\* strings.HasSuffix(s, suffix)
HasSuffix(s, suffix) ==
    /\ Len(s) >= Len(suffix)
    /\ SubSeq(s, Len(s) - Len(suffix) + 1, Len(s)) = suffix

\* the loop of lines 129-134: the first principal id, in list order, ending in the user name
FirstMatchingPrincipal_Mutant(ids, name, i) ==
    LET m == {j \in i..Len(ids) : HasSuffix(ids[j], name)}
    IN  IF m = {} THEN Empty ELSE ids[CHOOSE j \in m : \A k \in m : k <= j]
RECURSIVE FirstMatchingPrincipal(_, _, _)
FirstMatchingPrincipal(ids, name, i) ==
    IF i > Len(ids) THEN Empty
    ELSE IF HasSuffix(ids[i], name) THEN ids[i]
    ELSE FirstMatchingPrincipal(ids, name, i + 1)

\* line 109: the subject needs no resolution
SubjectResolved_Mutant(binding) ==
    \/ binding.GroupName # Empty
    \/ binding.GroupPrincipalName # Empty
SubjectResolved(binding) ==
    \/ binding.GroupName # Empty
    \/ binding.GroupPrincipalName # Empty
    \/ (binding.UserPrincipalName # Empty /\ binding.UserName # Empty)

EnsureUserCall(binding) ==
    [fn |-> "EnsureUser", args |-> <<binding.UserPrincipalName, binding.DisplayName>>]
UserGetCall(binding) ==
    [fn |-> "userLister.Get", args |-> <<Empty, binding.UserName>>]

\* lines 113-122: only the principal is set
EnsureBranch_Mutant(binding, ensure) ==
    [binding |-> [binding EXCEPT !.UserName = ensure.Name],
     err |-> ensure.err,
     calls |-> <<EnsureUserCall(binding)>>]
EnsureBranch(binding, ensure) ==
    IF ensure.err # Nil
    THEN [binding |-> binding, err |-> ensure.err, calls |-> <<EnsureUserCall(binding)>>]
    ELSE [binding |-> [binding EXCEPT !.UserName = ensure.Name],
          err |-> Nil,
          calls |-> <<EnsureUserCall(binding)>>]

\* lines 124-136: only the user name is set
LookupBranch_Mutant(binding, get) ==
    [binding |-> IF get.err = Nil /\ get.PrincipalIDs # <<>>
                 THEN [binding EXCEPT !.UserPrincipalName = get.PrincipalIDs[1]]
                 ELSE binding,
     err |-> get.err,
     calls |-> <<UserGetCall(binding)>>]
LookupBranch(binding, get) ==
    IF get.err # Nil
    THEN [binding |-> binding, err |-> get.err, calls |-> <<UserGetCall(binding)>>]
    ELSE LET p == FirstMatchingPrincipal(get.PrincipalIDs, binding.UserName, 1)
         IN  [binding |-> IF p # Empty THEN [binding EXCEPT !.UserPrincipalName = p]
                          ELSE binding,
              err |-> Nil,
              calls |-> <<UserGetCall(binding)>>]

\* line 138
NoSubject_Mutant(binding) == [binding |-> binding, err |-> Nil, calls |-> <<>>]
NoSubject(binding) == [binding |-> NilBinding, err |-> ErrNoSubject, calls |-> <<>>]

\* crtbLifecycle.reconcileSubject; ensure and get are the answers the user manager
\* and the user lister give if they are called
ReconcileSubject(binding, ensure, get) ==
    IF SubjectResolved(binding)
    THEN [binding |-> binding, err |-> Nil, calls |-> <<>>]
    ELSE IF binding.UserPrincipalName # Empty /\ binding.UserName = Empty
    THEN EnsureBranch(binding, ensure)
    ELSE IF binding.UserPrincipalName = Empty /\ binding.UserName # Empty
    THEN LookupBranch(binding, get)
    ELSE NoSubject(binding)

NoResult == [binding |-> NilBinding, err |-> Nil, calls |-> <<>>]


\* the characters of a name as one string
RECURSIVE StrOf(_)
StrOf(s) == IF s = <<>> THEN "" ELSE Head(s) \o StrOf(Tail(s))

(***************************************************************************)
(* Constants of crtb_handler.go                                             *)
(***************************************************************************)
MembershipBindingOwnerLegacy == "memberhsip-binding-owner"
MembershipBindingOwner == "membership-binding-owner"
CrtbInProjectBindingOwner == "crtb-in-project-binding-owner"
rtbLabelUpdated == "auth.management.cattle.io/rtb-label-updated"
RtbCrbRbLabelsUpdated == "auth.management.cattle.io/crb-rb-labels-updated"
\* retry.DefaultRetry.Steps: the calls RetryOnConflict makes at most
Steps == 5

(***************************************************************************)
(* The cluster of the model                                                 *)
(***************************************************************************)
CRTBs == {"crtb1", "crtb2"}
\* binding.ClusterName; a CRTB lives in the namespace named after its cluster
ClusterName(c) == "c-1"
Namespace(c) == ClusterName(c)
\* binding.UID
UID(c) == "uid-" \o c
\* binding.RoleTemplateName
RoleTemplateName(c) == "rt1"
\* the projects, in the order projectLister.List returns them, and their namespaces
ProjectOrder == <<"p1", "p2">>
Projects == {ProjectOrder[i] : i \in 1..Len(ProjectOrder)}
ProjectNamespace(p) == "c-1"

(***************************************************************************)
(* Labels: a set of <<key, value>> with at most one value per key           *)
(***************************************************************************)
HasKey(l, k) == \E kv \in l : kv[1] = k
\* labels[k] = v
SetLabel(l, k, v) == {kv \in l : kv[1] # k} \cup {<<k, v>>}
DeleteLabel(l, k) == {kv \in l : kv[1] # k}
\* labels.Set(set).AsSelector().Matches(l)
Matches(set, l) == set \subseteq l

(***************************************************************************)
(* Collaborators of the handler (pkg/rbac and the manager of this package)  *)
(***************************************************************************)
\* pkgrbac.GetRTBLabel(binding.ObjectMeta): the provenance key, from namespace and name
GetRTBLabel(c) == Namespace(c) \o "_" \o c

\* strings.ToLower, character by character
LowerChar(ch) ==
    CASE ch = "C" -> "c"
      [] ch = "O" -> "o"
      [] OTHER -> ch
ToLower(s) == [i \in 1..Len(s) |-> LowerChar(s[i])]

\* the characters of ClusterName(c)
ClusterNameChars(c) == <<"c", "-", "1">>

ErrBuildSubject == "BuildSubjectFromRTB failed"
NoSubjectForm == [kind |-> "", name |-> Empty]
\* pkgrbac.BuildSubjectFromRTB: the one concrete subject form of the binding
BuildSubjectFromRTB(binding) ==
    LET forms == (IF binding.UserName # Empty
                  THEN {[kind |-> "User", name |-> binding.UserName]} ELSE {})
                 \cup (IF binding.GroupPrincipalName # Empty
                       THEN {[kind |-> "Group", name |-> binding.GroupPrincipalName]} ELSE {})
                 \cup (IF binding.GroupName # Empty
                       THEN {[kind |-> "Group", name |-> binding.GroupName]} ELSE {})
    IN  IF Cardinality(forms) = 1
        THEN [subject |-> CHOOSE f \in forms : TRUE, err |-> Nil]
        ELSE [subject |-> NoSubjectForm, err |-> ErrBuildSubject]

SubjectStr(subject) == subject.kind \o ":" \o StrOf(subject.name)

\* the name of the ClusterRoleBinding that grants a cluster role to a subject
CRBName(roleName, subject) == roleName \o "/" \o SubjectStr(subject)
\* the name of the RoleBinding that grants a role template's rules to a subject
RBName(roleTemplateName, subject) == "rb-" \o roleTemplateName \o "/" \o SubjectStr(subject)

\* manager.ensureClusterMembershipBinding: the binding exists and carries the provenance label
EnsureClusterMembershipBinding(store, roleName, rtbLabel, subject) ==
    LET name == CRBName(roleName, subject)
        old == IF name \in DOMAIN store THEN store[name] ELSE {}
    IN  [n \in DOMAIN store \cup {name} |->
            IF n = name THEN SetLabel(old, rtbLabel, MembershipBindingOwner) ELSE store[n]]

\* manager.reconcileClusterMembershipBindingForDelete("", rtbLabel): the membership
\* bindings of the key are deleted, or only lose the key when another CRTB owns them too
ReconcileClusterMembershipBindingForDelete(store, rtbLabel) ==
    LET owned == {n \in DOMAIN store : <<rtbLabel, MembershipBindingOwner>> \in store[n]}
        shared == {n \in owned : \E kv \in store[n] :
                                    kv[2] = MembershipBindingOwner /\ kv[1] # rtbLabel}
    IN  [n \in DOMAIN store \ (owned \ shared) |->
            IF n \in shared THEN DeleteLabel(store[n], rtbLabel) ELSE store[n]]

\* manager.grantManagementClusterScopedPrivilegesInProjectNamespace: the RoleBinding in
\* the project's namespace exists and carries the provenance label
GrantManagementClusterScopedPrivilegesInProjectNamespace(store, roleTemplateName, projectNamespace, subject, rtbLabel) ==
    LET id == <<projectNamespace, RBName(roleTemplateName, subject)>>
        old == IF id \in DOMAIN store THEN store[id] ELSE {}
    IN  [i \in DOMAIN store \cup {id} |->
            IF i = id THEN SetLabel(old, rtbLabel, CrtbInProjectBindingOwner) ELSE store[i]]

\* projectLister.List(namespace, labels.Everything())
ProjectsOf(namespace) == SelectSeq(ProjectOrder, LAMBDA p : ProjectNamespace(p) = namespace)

\* rbLister.List(namespace, set.AsSelector()) on the lister's cache
ListRoleBindings(cache, namespace, set) ==
    {id \in DOMAIN cache : id[1] = namespace /\ Matches(set, cache[id])}

(***************************************************************************)
(* Remove                                                                   *)
(***************************************************************************)
ErrMembershipDelete == "reconcileClusterMembershipBindingForDelete failed"
ErrProjectList == "projectLister.List failed"
ErrRBList == "rbLister.List failed"
ErrDelete == "rbClient.DeleteNamespaced failed"
ErrNotFound == "rolebinding not found"
ErrAuthV2 == "removeAuthV2Permissions failed"

NoFault == [at |-> "none", p |-> "-"]
\* the call of Remove that fails, if one does
RemoveFaults ==
    {NoFault} \cup [at : {"membership", "projectList", "authV2"}, p : {"-"}]
              \cup [at : {"rbList", "delete"}, p : Projects]

\* lines 216-221: the listed RoleBindings are deleted one by one, up to the first error
RECURSIVE DeleteRoleBindings(_, _, _)
DeleteRoleBindings(store, todo, failing) ==
    IF todo = {} THEN [rbs |-> store, err |-> Nil, deleted |-> {}]
    ELSE LET rb == CHOOSE x \in todo : TRUE
         IN  IF failing THEN [rbs |-> store, err |-> ErrDelete, deleted |-> {}]
             ELSE IF rb \notin DOMAIN store
             THEN [rbs |-> store, err |-> ErrNotFound, deleted |-> {}]
             ELSE LET rest == DeleteRoleBindings([id \in DOMAIN store \ {rb} |-> store[id]],
                                                 todo \ {rb}, FALSE)
                  IN  [rest EXCEPT !.deleted = @ \cup {rb}]

\* lines 209 and 211: labels.Set{bindingKey: CrtbInProjectBindingOwner}
OwnedSelector_Mutant(c) == {}
OwnedSelector(c) == {<<GetRTBLabel(c), CrtbInProjectBindingOwner>>}

\* lines 210-222, from the i-th project on
RECURSIVE RemoveInProjects(_, _, _, _, _)
RemoveInProjects(c, cache, store, fail, i) ==
    LET projects == ProjectsOf(Namespace(c))
    IN  IF i > Len(projects) THEN [rbs |-> store, err |-> Nil, deleted |-> {}]
        ELSE IF fail = [at |-> "rbList", p |-> projects[i]]
        THEN [rbs |-> store, err |-> ErrRBList, deleted |-> {}]
        ELSE LET set == OwnedSelector(c)
                 d == DeleteRoleBindings(store, ListRoleBindings(cache, projects[i], set),
                                         fail = [at |-> "delete", p |-> projects[i]])
             IN  IF d.err # Nil THEN d
                 ELSE LET rest == RemoveInProjects(c, cache, d.rbs, fail, i + 1)
                      IN  [rest EXCEPT !.deleted = @ \cup d.deleted]

\* crtbLifecycle.removeMGMTClusterScopedPrivilegesInProjectNamespace
RemoveMGMTClusterScopedPrivilegesInProjectNamespace(c, cache, store, fail) ==
    IF fail.at = "projectList" THEN [rbs |-> store, err |-> ErrProjectList, deleted |-> {}]
    ELSE RemoveInProjects(c, cache, store, fail, 1)

\* crtbLifecycle.Remove on the stores: the stores after it, the error, the calls made
RemoveResult_Mutant(c, fail) ==
    IF fail.at = "membership"
    THEN [crbs |-> crbs, rbs |-> rbs, err |-> ErrMembershipDelete, deleted |-> {},
          trace |-> <<"reconcileClusterMembershipBindingForDelete">>]
    ELSE LET r == RemoveMGMTClusterScopedPrivilegesInProjectNamespace(c, rbCache, rbs, fail)
         IN  [crbs |-> ReconcileClusterMembershipBindingForDelete(crbs, GetRTBLabel(c)),
              rbs |-> r.rbs,
              err |-> IF fail.at = "authV2" THEN ErrAuthV2 ELSE Nil,
              deleted |-> r.deleted,
              trace |-> <<"reconcileClusterMembershipBindingForDelete",
                          "removeMGMTClusterScopedPrivilegesInProjectNamespace",
                          "removeAuthV2Permissions">>]
RemoveResult(c, fail) ==
    IF fail.at = "membership"
    THEN [crbs |-> crbs, rbs |-> rbs, err |-> ErrMembershipDelete, deleted |-> {},
          trace |-> <<"reconcileClusterMembershipBindingForDelete">>]
    ELSE LET r == RemoveMGMTClusterScopedPrivilegesInProjectNamespace(c, rbCache, rbs, fail)
             crbs1 == ReconcileClusterMembershipBindingForDelete(crbs, GetRTBLabel(c))
         IN  IF r.err # Nil
             THEN [crbs |-> crbs1, rbs |-> r.rbs, err |-> r.err, deleted |-> r.deleted,
                   trace |-> <<"reconcileClusterMembershipBindingForDelete",
                               "removeMGMTClusterScopedPrivilegesInProjectNamespace">>]
             ELSE [crbs |-> crbs1, rbs |-> r.rbs,
                   err |-> IF fail.at = "authV2" THEN ErrAuthV2 ELSE Nil,
                   deleted |-> r.deleted,
                   trace |-> <<"reconcileClusterMembershipBindingForDelete",
                               "removeMGMTClusterScopedPrivilegesInProjectNamespace",
                               "removeAuthV2Permissions">>]

(***************************************************************************)
(* reconcileBindings                                                        *)
(***************************************************************************)
ErrClusterGet == "clusterLister.Get failed"
ErrClusterNotFound == "cannot create binding because cluster was not found"
ErrRoles == "checkReferencedRoles failed"
ErrEnsureMembership == "ensureClusterMembershipBinding failed"
ErrGrantMgmt == "grantManagementPlanePrivileges failed"
ErrGrantProject == "grantManagementClusterScopedPrivilegesInProjectNamespace failed"

OwnerSuffix == <<"-", "c", "l", "u", "s", "t", "e", "r", "o", "w", "n", "e", "r">>
MemberSuffix == <<"-", "c", "l", "u", "s", "t", "e", "r", "m", "e", "m", "b", "e", "r">>

\* lines 168-173
ClusterRoleName_Mutant(c, isOwnerRole) ==
    IF isOwnerRole THEN StrOf(ToLower(ClusterNameChars(c) \o MemberSuffix))
    ELSE StrOf(ToLower(ClusterNameChars(c) \o OwnerSuffix))
ClusterRoleName(c, isOwnerRole) ==
    IF isOwnerRole THEN StrOf(ToLower(ClusterNameChars(c) \o OwnerSuffix))
    ELSE StrOf(ToLower(ClusterNameChars(c) \o MemberSuffix))

\* what the collaborators of reconcileBindings answer: the cluster lookup ("ok", "err" or
\* "nil"), the role check ("ok", "notFound" or "err"), the call that fails,
\* and the projects the lister shows with a deletion timestamp
BindingsEnvs ==
    [cluster : {"err", "nil"}, roles : {"ok"}, fail : {NoFault}, deleting : {{}}]
    \cup [cluster : {"ok"}, roles : {"notFound", "err"}, fail : {NoFault}, deleting : {{}}]
    \cup [cluster : {"ok"}, roles : {"ok"},
          fail : [at : {"ensure", "grantMgmt", "projectList"}, p : {"-"}], deleting : {{}}]
    \cup {e \in [cluster : {"ok"}, roles : {"ok"},
                  fail : {NoFault} \cup [at : {"grant"}, p : Projects],
                  deleting : SUBSET Projects] : e.fail.p \notin e.deleting}

\* a call fails under env
EnvFaulty(env) == env.cluster # "ok" \/ env.roles = "err" \/ env.fail # NoFault

\* lines 192-200, from the i-th project on; trace holds the calls made so far
RECURSIVE GrantInProjects_Mutant(_, _, _, _, _, _, _)
GrantInProjects_Mutant(c, subject, crbStore, rbStore, env, trace, i) ==
    LET projects == ProjectsOf(Namespace(c))
    IN  IF i > Len(projects)
        THEN [crbs |-> crbStore, rbs |-> rbStore, err |-> Nil, trace |-> trace]
        ELSE LET call == <<"grantManagementClusterScopedPrivilegesInProjectNamespace",
                           RoleTemplateName(c), projects[i], SubjectStr(subject)>>
             IN  IF env.fail = [at |-> "grant", p |-> projects[i]]
                 THEN [crbs |-> crbStore, rbs |-> rbStore, err |-> ErrGrantProject,
                       trace |-> Append(trace, call)]
                 ELSE GrantInProjects_Mutant(c, subject, crbStore,
                          GrantManagementClusterScopedPrivilegesInProjectNamespace(
                              rbStore, RoleTemplateName(c), projects[i], subject, GetRTBLabel(c)),
                          env, Append(trace, call), i + 1)
RECURSIVE GrantInProjects(_, _, _, _, _, _, _)
GrantInProjects(c, subject, crbStore, rbStore, env, trace, i) ==
    LET projects == ProjectsOf(Namespace(c))
    IN  IF i > Len(projects)
        THEN [crbs |-> crbStore, rbs |-> rbStore, err |-> Nil, trace |-> trace]
        ELSE IF projects[i] \in env.deleting
        THEN GrantInProjects(c, subject, crbStore, rbStore, env, trace, i + 1)
        ELSE LET call == <<"grantManagementClusterScopedPrivilegesInProjectNamespace",
                           RoleTemplateName(c), projects[i], SubjectStr(subject)>>
             IN  IF env.fail = [at |-> "grant", p |-> projects[i]]
                 THEN [crbs |-> crbStore, rbs |-> rbStore, err |-> ErrGrantProject,
                       trace |-> Append(trace, call)]
                 ELSE GrantInProjects(c, subject, crbStore,
                          GrantManagementClusterScopedPrivilegesInProjectNamespace(
                              rbStore, RoleTemplateName(c), projects[i], subject, GetRTBLabel(c)),
                          env, Append(trace, call), i + 1)

\* lines 152-158: the cluster lookup: whether reconcileBindings returns here, and what
ClusterLookup_Mutant(env) ==
    IF env.cluster = "err" THEN [returns |-> TRUE, err |-> ErrClusterGet]
    ELSE [returns |-> FALSE, err |-> Nil]
ClusterLookup(env) ==
    IF env.cluster = "err" THEN [returns |-> TRUE, err |-> ErrClusterGet]
    ELSE IF env.cluster = "nil" THEN [returns |-> TRUE, err |-> ErrClusterNotFound]
    ELSE [returns |-> FALSE, err |-> Nil]

\* lines 160-167: the role check: whether reconcileBindings returns here, and what
CheckReferencedRoles_Mutant(env) ==
    IF env.roles \in {"err", "notFound"} THEN [returns |-> TRUE, err |-> ErrRoles]
    ELSE [returns |-> FALSE, err |-> Nil]
CheckReferencedRoles(env) ==
    IF env.roles = "err" THEN [returns |-> TRUE, err |-> ErrRoles]
    ELSE IF env.roles = "notFound" THEN [returns |-> TRUE, err |-> Nil]
    ELSE [returns |-> FALSE, err |-> Nil]

\* crtbLifecycle.reconcileBindings on the stores: the stores after it, the error, the calls
ReconcileBindings(c, binding, crbStore, rbStore, env) ==
    LET return(err, trace) == [crbs |-> crbStore, rbs |-> rbStore, err |-> err, trace |-> trace]
        clusterGet == <<"clusterLister.Get", ClusterName(c), "", "">>
        roleCheck == <<"checkReferencedRoles", RoleTemplateName(c), "", "">>
        isOwnerRole == ownerRole
        clusterRoleName == ClusterRoleName(c, isOwnerRole)
        sub == BuildSubjectFromRTB(binding)
        ensure == <<"ensureClusterMembershipBinding", clusterRoleName, GetRTBLabel(c),
                    SubjectStr(sub.subject)>>
        grant == <<"grantManagementPlanePrivileges", RoleTemplateName(c), "",
                   SubjectStr(sub.subject)>>
        projectList == <<"projectLister.List", Namespace(c), "", "">>
    IN  IF /\ binding.UserName = Empty
           /\ binding.GroupPrincipalName = Empty
           /\ binding.GroupName = Empty
        THEN return(Nil, <<>>)
        ELSE IF ClusterLookup(env).returns
        THEN return(ClusterLookup(env).err, <<clusterGet>>)
        ELSE IF CheckReferencedRoles(env).returns
        THEN return(CheckReferencedRoles(env).err, <<clusterGet, roleCheck>>)
        ELSE IF sub.err # Nil THEN return(sub.err, <<clusterGet, roleCheck>>)
        ELSE IF env.fail.at = "ensure"
        THEN return(ErrEnsureMembership, <<clusterGet, roleCheck, ensure>>)
        ELSE LET crbs1 == EnsureClusterMembershipBinding(crbStore, clusterRoleName,
                                                         GetRTBLabel(c), sub.subject)
             IN  IF env.fail.at = "grantMgmt"
                 THEN [crbs |-> crbs1, rbs |-> rbStore, err |-> ErrGrantMgmt,
                       trace |-> <<clusterGet, roleCheck, ensure, grant>>]
                 ELSE IF env.fail.at = "projectList"
                 THEN [crbs |-> crbs1, rbs |-> rbStore, err |-> ErrProjectList,
                       trace |-> <<clusterGet, roleCheck, ensure, grant, projectList>>]
                 ELSE GrantInProjects(c, sub.subject, crbs1, rbStore, env,
                          <<clusterGet, roleCheck, ensure, grant, projectList>>, 1)

(***************************************************************************)
(* The handler invocations                                                  *)
(***************************************************************************)
\* the bindings the informer hands to the handler, with what the user manager and the
\* user lister answer if reconcileSubject asks them
DefaultEnsure == [err |-> Nil, Name |-> UserA]
DefaultGet == [err |-> Nil, PrincipalIDs |-> <<>>]
SubjectOf(userName, userPrincipalName) ==
    [UserName |-> userName, UserPrincipalName |-> userPrincipalName,
     GroupName |-> Empty, GroupPrincipalName |-> Empty, DisplayName |-> DisplayA]
SubjectCases ==
    {[subject |-> SubjectOf(UserA, PrincipalLocalA), ensure |-> DefaultEnsure, get |-> DefaultGet],
     [subject |-> SubjectOf(Empty, PrincipalLocalA), ensure |-> DefaultEnsure, get |-> DefaultGet],
     [subject |-> SubjectOf(Empty, PrincipalLocalA),
      ensure |-> [err |-> ErrEnsureUser, Name |-> UserA], get |-> DefaultGet],
     [subject |-> SubjectOf(UserA, Empty), ensure |-> DefaultEnsure,
      get |-> [err |-> ErrUserGet, PrincipalIDs |-> <<>>]],
     [subject |-> SubjectOf(Empty, Empty), ensure |-> DefaultEnsure, get |-> DefaultGet]}
SubjectFaulty(sc) == sc.ensure.err # Nil \/ sc.get.err # Nil
BindingOf(c, subject) ==
    [Name |-> c, UserName |-> subject.UserName,
     UserPrincipalName |-> subject.UserPrincipalName, GroupName |-> subject.GroupName,
     GroupPrincipalName |-> subject.GroupPrincipalName, DisplayName |-> subject.DisplayName]

\* an error as the set of the errors joined in it; nil is the empty set
ErrSet(err) == IF err = Nil THEN {} ELSE {err}

\* no handler invocation in progress
NoRun ==
    [op |-> "", crtb |-> "", binding |-> NilBinding, crbTodo |-> <<>>, rbTodo |-> <<>>,
     attempt |-> 0, got |-> {}, fresh |-> FALSE, returnErr |-> {}, failures |-> {},
     listed |-> {}, attempted |-> {}, called |-> {}, sentinel |-> FALSE, migrated |-> FALSE]

\* no collaborator of reconcileBindings or of Remove was asked
NoEnv == [cluster |-> "-", roles |-> "-", fail |-> NoFault, deleting |-> {}]

\* the record of a finished handler invocation: what it returned, the calls it made and
\* what its collaborators answered
Finished(op, c, err, returned, deleted, trace, env, r) ==
    [op |-> op, crtb |-> c, err |-> err, returned |-> returned, deleted |-> deleted,
     trace |-> trace, env |-> env, failures |-> r.failures, listed |-> r.listed,
     attempted |-> r.attempted, called |-> r.called, sentinel |-> r.sentinel,
     migrated |-> r.migrated]

NothingYet == Finished("", "", {}, NilBinding, {}, <<>>, NoEnv, NoRun)

\* the answers a call may get: it fails only while the model's budget of failures lasts
Answers == IF nFaults < MaxFaults THEN {"ok", "err"} ELSE {"ok"}
Count(answer) == nFaults' = IF answer = "err" THEN nFaults + 1 ELSE nFaults

\* the handler invocation in progress returns
Finish(err, returned, trace, env, r) ==
    /\ pc' = "returned"
    /\ run' = NoRun
    /\ last' = Finished(r.op, r.crtb, err, returned, {}, trace, env, r)

\* lines 75-78 and 85-88: reconcileSubject, first thing in Create and in Updated
Subject_Mutant(op, c, sc, next) ==
    LET s == ReconcileSubject(BindingOf(c, sc.subject), sc.ensure, sc.get)
    IN  /\ SubjectFaulty(sc) => nFaults < MaxFaults
        /\ nFaults' = IF SubjectFaulty(sc) THEN nFaults + 1 ELSE nFaults
        /\ pc' = next
        /\ run' = [NoRun EXCEPT !.op = op, !.crtb = c, !.binding = s.binding]
        /\ last' = NothingYet
Subject(op, c, sc, next) ==
    LET s == ReconcileSubject(BindingOf(c, sc.subject), sc.ensure, sc.get)
        r == [NoRun EXCEPT !.op = op, !.crtb = c, !.binding = s.binding]
    IN  /\ SubjectFaulty(sc) => nFaults < MaxFaults
        /\ nFaults' = IF SubjectFaulty(sc) THEN nFaults + 1 ELSE nFaults
        /\ IF s.err # Nil
           THEN Finish({s.err}, NilBinding, <<>>, NoEnv, r)
           ELSE pc' = next /\ run' = r /\ last' = NothingYet

\* crtbLifecycle.Create, delivered for CRTB c: reconcileSubject; reconcileBindings is due
Create(c) ==
    /\ pc = "idle"
    /\ nEvents < MaxEvents
    /\ crtbCache[c].exists
    /\ nEvents' = nEvents + 1
    /\ \E sc \in SubjectCases : Subject("Create", c, sc, "bindings")
    /\ UNCHANGED <<storeVars, extVars, subj, crtbStore, crtbCache, crbs, crbCache, rbs, rbCache, reqs, ownerRole>>

\* lines 79-81 and 92-93: reconcileBindings, and Create or Updated returns
ReconcileBindingsReturn ==
    /\ pc = "bindings"
    /\ \E env \in BindingsEnvs :
           LET r == ReconcileBindings(run.crtb, run.binding, crbs, rbs, env)
           IN  /\ EnvFaulty(env) => nFaults < MaxFaults
               /\ nFaults' = IF EnvFaulty(env) THEN nFaults + 1 ELSE nFaults
               /\ crbs' = r.crbs
               /\ rbs' = r.rbs
               /\ Finish(ErrSet(r.err), run.binding, r.trace, env, run)
    /\ UNCHANGED <<storeVars, extVars, subj, crtbStore, crtbCache, crbCache, rbCache, reqs, ownerRole, nEvents>>

\* crtbLifecycle.Remove, delivered for CRTB c
Remove(c) ==
    /\ pc = "idle"
    /\ nEvents < MaxEvents
    /\ crtbCache[c].exists
    /\ \E fail \in RemoveFaults :
           LET r == RemoveResult(c, fail)
           IN  /\ fail # NoFault => nFaults < MaxFaults
               /\ nFaults' = IF fail # NoFault THEN nFaults + 1 ELSE nFaults
               /\ crbs' = r.crbs
               /\ rbs' = r.rbs
               /\ last' = Finished("Remove", c, ErrSet(r.err), NilBinding, r.deleted,
                                    [i \in 1..Len(r.trace) |-> <<r.trace[i], "", "", "">>],
                                    [NoEnv EXCEPT !.fail = fail], NoRun)
    /\ nEvents' = nEvents + 1
    /\ pc' = "returned"
    /\ UNCHANGED <<storeVars, extVars, subj, crtbStore, crtbCache, crbCache, rbCache, reqs, ownerRole, run>>

\* the controller takes what the handler returned: after a Remove without error it drops
\* the finalizer and the CRTB is gone; the next event finds the handler idle
Returned ==
    /\ pc = "returned"
    /\ pc' = "idle"
    /\ crtbStore' = IF last.op = "Remove" /\ last.err = {}
                    THEN [crtbStore EXCEPT ![last.crtb].exists = FALSE]
                    ELSE crtbStore
    /\ last' = NothingYet
    /\ nFaults' = 0
    /\ UNCHANGED <<storeVars, extVars, subj, crtbCache, crbs, crbCache, rbs, rbCache, reqs, ownerRole, run, nEvents>>

(***************************************************************************)
(* reconcileLabels and Updated                                              *)
(***************************************************************************)
ErrRequirements == "getLabelRequirements failed"
ErrCRBList == "crbLister.List failed"
ErrAPI == "api error"
ErrConflict == "conflict"

\* the auxiliary requirements getLabelRequirements may answer: "updated" excludes the
\* objects carrying the label-updated marker, "key" those carrying the CRTB's own key
RequirementChoices == {{}, {"updated", "key"}}
GetLabelRequirements(c, l) ==
    /\ "updated" \in reqs => ~HasKey(l, rtbLabelUpdated)
    /\ "key" \in reqs => ~HasKey(l, GetRTBLabel(c))

\* line 242-243: crbLister.List(NamespaceAll, set.AsSelector().Add(requirements...))
ListLegacyCRBs(cache, c) ==
    {n \in DOMAIN cache : /\ Matches({<<UID(c), MembershipBindingOwnerLegacy>>}, cache[n])
                          /\ GetLabelRequirements(c, cache[n])}

\* line 265-266: rbLister.List(NamespaceAll, set.AsSelector().Add(requirements...))
ListLegacyRBs(cache, c) ==
    {id \in DOMAIN cache : /\ Matches({<<UID(c), CrtbInProjectBindingOwner>>}, cache[id])
                           /\ GetLabelRequirements(c, cache[id])}

\* line 232: binding.Labels[RtbCrbRbLabelsUpdated] == "true"
LabelsUpdated_Mutant(l) == FALSE
LabelsUpdated(l) == <<RtbCrbRbLabelsUpdated, "true">> \in l

\* lines 254-258
MigratedCRBLabels_Mutant(got, c) ==
    {<<GetRTBLabel(c), MembershipBindingOwner>>, <<rtbLabelUpdated, "true">>}
MigratedCRBLabels(got, c) ==
    SetLabel(SetLabel(got, GetRTBLabel(c), MembershipBindingOwner), rtbLabelUpdated, "true")
\* lines 277-281
MigratedRBLabels(got, c) ==
    SetLabel(SetLabel(got, GetRTBLabel(c), CrtbInProjectBindingOwner), rtbLabelUpdated, "true")
\* lines 296-299
MigratedCRTBLabels(got) == SetLabel(got, RtbCrbRbLabelsUpdated, "true")

\* retry.RetryOnConflict(retry.DefaultRetry, ...): the function runs at most Steps times
RetryAfterConflict(attempt) == attempt < Steps

\* the order in which a lister hands out a set of objects
RECURSIVE SetToSeq(_)
SetToSeq(S) ==
    IF S = {} THEN <<>>
    ELSE LET x == CHOOSE y \in S : TRUE IN <<x>> \o SetToSeq(S \ {x})

\* the objects the migration works on, by kind and name
CRBItem(n) == <<"crb", "", n>>
RBItem(id) == <<"rb", id[1], id[2]>>
CRTBItem(c) == <<"crtb", Namespace(c), c>>
\* the list of the RoleBindings as a whole
RBListItem == <<"rb", "", "*">>
Failure(item, kind) == <<item, kind>>

\* the retry loop of the head of the list is over, with a failure or without
ItemDone(r, item, failed, kind) ==
    [r EXCEPT !.attempt = 1, !.got = {}, !.fresh = FALSE,
              !.attempted = @ \cup {item},
              !.failures = IF failed THEN @ \cup {Failure(item, kind)} ELSE @,
              !.returnErr = IF failed THEN @ \cup {Failure(item, kind)} ELSE @]

\* crtbLifecycle.Updated, delivered for CRTB c with the labels the informer's cache holds:
\* reconcileSubject, then reconcileLabels up to the list of the ClusterRoleBindings
Updated(c) ==
    /\ pc = "idle"
    /\ nEvents < MaxEvents
    /\ crtbCache[c].exists
    /\ nEvents' = nEvents + 1
    /\ \E sc \in SubjectCases, answer \in {"ok", "requirements", "list"} :
           LET s == ReconcileSubject(BindingOf(c, sc.subject), sc.ensure, sc.get)
               injected == (IF SubjectFaulty(sc) THEN 1 ELSE 0) + (IF answer # "ok" THEN 1 ELSE 0)
               listed == ListLegacyCRBs(crbCache, c)
               r == [NoRun EXCEPT
                        !.op = "Updated", !.crtb = c, !.binding = s.binding, !.attempt = 1,
                        !.sentinel = <<RtbCrbRbLabelsUpdated, "true">> \in crtbCache[c].labels,
                        !.migrated = <<RtbCrbRbLabelsUpdated, "true">> \in crtbStore[c].labels]
           IN  /\ nFaults + injected <= MaxFaults
               /\ nFaults' = nFaults + injected
               /\ answer # "ok" => /\ s.err = Nil
                                   /\ ~LabelsUpdated(crtbCache[c].labels)
               /\ IF s.err # Nil
                  THEN Finish({s.err}, NilBinding, <<>>, NoEnv, r)
                  ELSE IF LabelsUpdated(crtbCache[c].labels)
                  THEN pc' = "bindings" /\ run' = r /\ last' = NothingYet
                  ELSE IF answer = "requirements"
                  THEN Finish({ErrRequirements}, NilBinding, <<>>, NoEnv, r)
                  ELSE IF answer = "list"
                  THEN Finish({ErrCRBList}, NilBinding, <<>>, NoEnv, r)
                  ELSE /\ run' = [r EXCEPT !.crbTodo = SetToSeq(listed),
                                           !.listed = {CRBItem(n) : n \in listed}]
                       /\ pc' = IF listed = {} THEN "rbList" ELSE "crbGet"
                       /\ last' = NothingYet
    /\ UNCHANGED <<storeVars, extVars, subj, crtbStore, crtbCache, crbs, crbCache, rbs, rbCache, reqs, ownerRole>>

\* line 250: crbClient.Get of the ClusterRoleBinding at the head of the list
CrbGet ==
    /\ pc = "crbGet"
    /\ LET n == Head(run.crbTodo)
           item == CRBItem(n)
           r == [run EXCEPT !.called = @ \cup {<<"Get", item>>}]
           next(rr) == [rr EXCEPT !.crbTodo = Tail(@)]
       IN  \E answer \in Answers :
              /\ Count(answer)
              /\ IF answer = "err" \/ n \notin DOMAIN crbs
                 THEN /\ run' = next(ItemDone(r, item, TRUE,
                                              IF answer = "err" THEN ErrAPI ELSE ErrNotFound))
                      /\ pc' = IF Len(run.crbTodo) = 1 THEN "rbList" ELSE "crbGet"
                 ELSE /\ run' = [r EXCEPT !.got = crbs[n], !.fresh = TRUE]
                      /\ pc' = "crbUpdate"
    /\ UNCHANGED <<storeVars, extVars, subj, crtbStore, crtbCache, crbs, crbCache, rbs, rbCache, reqs, ownerRole, last,
                   nEvents>>

\* an Update without optimistic concurrency: the labels read are written whatever happened
\* to the object since
CrbUpdate_Mutant ==
    /\ pc = "crbUpdate"
    /\ LET n == Head(run.crbTodo)
           r == [run EXCEPT !.called = @ \cup {<<"Update", CRBItem(n)>>}]
       IN  /\ crbs' = [crbs EXCEPT ![n] = MigratedCRBLabels(run.got, run.crtb)]
           /\ run' = [ItemDone(r, CRBItem(n), FALSE, Nil) EXCEPT !.crbTodo = Tail(@)]
           /\ pc' = IF Len(run.crbTodo) = 1 THEN "rbList" ELSE "crbGet"
    /\ UNCHANGED <<storeVars, extVars, subj, crtbStore, crtbCache, crbCache, rbs, rbCache, reqs, ownerRole, last,
                   nEvents, nFaults>>

\* lines 257-262: crbClient.Update with the two labels added; a conflict runs Get again
CrbUpdate ==
    /\ pc = "crbUpdate"
    /\ LET n == Head(run.crbTodo)
           item == CRBItem(n)
           r == [run EXCEPT !.called = @ \cup {<<"Update", item>>}]
           next(rr) == [rr EXCEPT !.crbTodo = Tail(@)]
           after == IF Len(run.crbTodo) = 1 THEN "rbList" ELSE "crbGet"
       IN  \E answer \in Answers :
              /\ Count(answer)
              /\ IF answer = "err"
                 THEN run' = next(ItemDone(r, item, TRUE, ErrAPI)) /\ pc' = after
                      /\ UNCHANGED crbs
                 ELSE IF ~run.fresh /\ RetryAfterConflict(run.attempt)
                 THEN run' = [r EXCEPT !.attempt = @ + 1] /\ pc' = "crbGet" /\ UNCHANGED crbs
                 ELSE IF ~run.fresh
                 THEN run' = next(ItemDone(r, item, TRUE, ErrConflict)) /\ pc' = after
                      /\ UNCHANGED crbs
                 ELSE /\ crbs' = [crbs EXCEPT ![n] = MigratedCRBLabels(run.got, run.crtb)]
                      /\ run' = next(ItemDone(r, item, FALSE, Nil))
                      /\ pc' = after
    /\ UNCHANGED <<storeVars, extVars, subj, crtbStore, crtbCache, crbCache, rbs, rbCache, reqs, ownerRole, last,
                   nEvents>>

\* lines 287-291: the RoleBindings are through: the joined error is returned if there is
\* one, else the CRTB itself is due
LabelsEnd_Mutant(r) == pc' = "bindings" /\ run' = r /\ UNCHANGED last
\* the CRTB itself is due whatever the ClusterRoleBindings and RoleBindings returned
LabelsEnd_Regardless(r) == pc' = "crtbGet" /\ run' = r /\ UNCHANGED last
LabelsEnd(r) ==
    IF r.returnErr # {}
    THEN Finish(r.returnErr, NilBinding, <<>>, NoEnv, r)
    ELSE pc' = "crtbGet" /\ run' = r /\ UNCHANGED last

\* lines 265-269: rbLister.List; its error is returned as it is
RbList ==
    /\ pc = "rbList"
    /\ \E answer \in Answers :
           LET listed == ListLegacyRBs(rbCache, run.crtb)
               r == [run EXCEPT !.rbTodo = SetToSeq(listed),
                                !.listed = @ \cup {RBItem(id) : id \in listed}]
           IN  /\ Count(answer)
               /\ IF answer = "err"
                  THEN Finish({Failure(RBListItem, ErrRBList)}, NilBinding, <<>>, NoEnv,
                              [run EXCEPT !.failures = @ \cup {Failure(RBListItem, ErrRBList)}])
                  ELSE IF listed = {}
                  THEN LabelsEnd(r)
                  ELSE pc' = "rbGet" /\ run' = r /\ UNCHANGED last
    /\ UNCHANGED <<storeVars, extVars, subj, crtbStore, crtbCache, crbs, crbCache, rbs, rbCache, reqs, ownerRole,
                   nEvents>>

\* the RoleBinding at the head of the list is through
RbNext(r) ==
    IF Len(r.rbTodo) = 1
    THEN LabelsEnd([r EXCEPT !.rbTodo = <<>>])
    ELSE pc' = "rbGet" /\ run' = [r EXCEPT !.rbTodo = Tail(@)] /\ UNCHANGED last

\* line 273: rbClient.GetNamespaced of the RoleBinding at the head of the list
RbGet ==
    /\ pc = "rbGet"
    /\ LET id == Head(run.rbTodo)
           item == RBItem(id)
           r == [run EXCEPT !.called = @ \cup {<<"Get", item>>}]
       IN  \E answer \in Answers :
              /\ Count(answer)
              /\ IF answer = "err" \/ id \notin DOMAIN rbs
                 THEN RbNext(ItemDone(r, item, TRUE,
                                      IF answer = "err" THEN ErrAPI ELSE ErrNotFound))
                 ELSE /\ run' = [r EXCEPT !.got = rbs[id], !.fresh = TRUE]
                      /\ pc' = "rbUpdate"
                      /\ UNCHANGED last
    /\ UNCHANGED <<storeVars, extVars, subj, crtbStore, crtbCache, crbs, crbCache, rbs, rbCache, reqs, ownerRole,
                   nEvents>>

\* lines 280-285: rbClient.Update with the two labels added; a conflict runs Get again
RbUpdate ==
    /\ pc = "rbUpdate"
    /\ LET id == Head(run.rbTodo)
           item == RBItem(id)
           r == [run EXCEPT !.called = @ \cup {<<"Update", item>>}]
       IN  \E answer \in Answers :
              /\ Count(answer)
              /\ IF answer = "err"
                 THEN RbNext(ItemDone(r, item, TRUE, ErrAPI)) /\ UNCHANGED rbs
                 ELSE IF ~run.fresh /\ RetryAfterConflict(run.attempt)
                 THEN /\ run' = [r EXCEPT !.attempt = @ + 1]
                      /\ pc' = "rbGet"
                      /\ UNCHANGED <<rbs, last>>
                 ELSE IF ~run.fresh
                 THEN RbNext(ItemDone(r, item, TRUE, ErrConflict)) /\ UNCHANGED rbs
                 ELSE /\ rbs' = [rbs EXCEPT ![id] = MigratedRBLabels(run.got, run.crtb)]
                      /\ RbNext(ItemDone(r, item, FALSE, Nil))
    /\ UNCHANGED <<storeVars, extVars, subj, crtbStore, crtbCache, crbs, crbCache, rbCache, reqs, ownerRole,
                   nEvents>>

\* line 292: crtbClient.GetNamespaced of the CRTB itself
CrtbGet ==
    /\ pc = "crtbGet"
    /\ LET item == CRTBItem(run.crtb)
           r == [run EXCEPT !.called = @ \cup {<<"Get", item>>}]
       IN  \E answer \in Answers :
              /\ Count(answer)
              /\ IF answer = "err" \/ ~crtbStore[run.crtb].exists
                 THEN LET kind == IF answer = "err" THEN ErrAPI ELSE ErrNotFound
                      IN  Finish({Failure(item, kind)}, NilBinding, <<>>, NoEnv,
                                 ItemDone(r, item, TRUE, kind))
                 ELSE /\ run' = [r EXCEPT !.got = crtbStore[run.crtb].labels, !.fresh = TRUE]
                      /\ pc' = "crtbUpdate"
                      /\ UNCHANGED last
    /\ UNCHANGED <<storeVars, extVars, subj, crtbStore, crtbCache, crbs, crbCache, rbs, rbCache, reqs, ownerRole,
                   nEvents>>

\* lines 299-303: crtbClient.Update with the sentinel added; reconcileBindings is due
CrtbUpdate ==
    /\ pc = "crtbUpdate"
    /\ LET item == CRTBItem(run.crtb)
           r == [run EXCEPT !.called = @ \cup {<<"Update", item>>}]
       IN  \E answer \in Answers :
              /\ Count(answer)
              /\ IF answer = "err"
                 THEN /\ Finish({Failure(item, ErrAPI)}, NilBinding, <<>>, NoEnv,
                                ItemDone(r, item, TRUE, ErrAPI))
                      /\ UNCHANGED crtbStore
                 ELSE IF ~run.fresh /\ RetryAfterConflict(run.attempt)
                 THEN /\ run' = [r EXCEPT !.attempt = @ + 1]
                      /\ pc' = "crtbGet"
                      /\ UNCHANGED <<crtbStore, last>>
                 ELSE IF ~run.fresh
                 THEN /\ Finish({Failure(item, ErrConflict)}, NilBinding, <<>>, NoEnv,
                                ItemDone(r, item, TRUE, ErrConflict))
                      /\ UNCHANGED crtbStore
                 ELSE /\ crtbStore' = [crtbStore EXCEPT
                                          ![run.crtb].labels = MigratedCRTBLabels(run.got)]
                      /\ run' = ItemDone(r, item, FALSE, Nil)
                      /\ pc' = "bindings"
                      /\ UNCHANGED last
    /\ UNCHANGED <<storeVars, extVars, subj, crtbCache, crbs, crbCache, rbs, rbCache, reqs, ownerRole, nEvents>>

(***************************************************************************)
(* The environment                                                          *)
(***************************************************************************)
\* another client of the API server updates the object the migration has just read (its
\* annotations, say: the labels stay), so that the Update that follows meets a conflict
OtherWriter ==
    /\ pc \in {"crbUpdate", "rbUpdate", "crtbUpdate"}
    /\ run.fresh
    /\ run' = [run EXCEPT !.fresh = FALSE]
    /\ UNCHANGED <<storeVars, extVars, subj, crtbStore, crtbCache, crbs, crbCache, rbs, rbCache, reqs, ownerRole, pc, last,
                   nEvents, nFaults>>

\* the label another client keeps on the ClusterRoleBindings and RoleBindings it shares
OtherLabel == <<"other-writer", "true">>

\* another client of the API server sets its own label on the ClusterRoleBinding or the
\* RoleBinding the migration has just read: the object changes between the migration's
\* read and its write (an update that changes nothing leaves the resource version alone)
LabelWriter ==
    /\ pc \in {"crbUpdate", "rbUpdate"}
    /\ run.fresh
    /\ run' = [run EXCEPT !.fresh = FALSE]
    /\ IF pc = "crbUpdate"
       THEN /\ Head(run.crbTodo) \in DOMAIN crbs
            /\ OtherLabel \notin crbs[Head(run.crbTodo)]
            /\ crbs' = [crbs EXCEPT ![Head(run.crbTodo)] = SetLabel(@, OtherLabel[1], OtherLabel[2])]
            /\ UNCHANGED rbs
       ELSE /\ Head(run.rbTodo) \in DOMAIN rbs
            /\ OtherLabel \notin rbs[Head(run.rbTodo)]
            /\ rbs' = [rbs EXCEPT ![Head(run.rbTodo)] = SetLabel(@, OtherLabel[1], OtherLabel[2])]
            /\ UNCHANGED crbs
    /\ UNCHANGED <<storeVars, extVars, subj, crtbStore, crtbCache, crbCache, rbCache, reqs, ownerRole, pc, last,
                   nEvents, nFaults>>

\* the informers catch up: the listers' caches hold what the API server holds
Sync ==
    /\ pc = "idle"
    /\ <<crtbCache, crbCache, rbCache>> # <<crtbStore, crbs, rbs>>
    /\ crtbCache' = crtbStore
    /\ crbCache' = crbs
    /\ rbCache' = rbs
    /\ UNCHANGED <<storeVars, extVars, subj, crtbStore, crbs, rbs, reqs, ownerRole, pc, run, last, nEvents, nFaults>>

(***************************************************************************)
(* The token store (pkg/ext/stores/tokens)                                  *)
(***************************************************************************)
\* line 20
tokenNamespace == "cattle-token-data"
\* the users that call the store, and the names they give their tokens
Users == {"u1", "u2"}
TokenNames == {"t1", "t2"}

\* randomtoken.Generate(): the value it makes is not empty
GeneratedValue == "generated"
\* a value the caller puts in Status.PlaintextToken itself
ChosenValue == "chosen"
\* hashers.GetHasher().CreateHash(value): one-way, the hash is not the value
CreateHash(value) ==
    CASE value = GeneratedValue -> "hash-of-generated"
      [] value = ChosenValue -> "hash-of-chosen"
      [] OTHER -> "hash-of-other"

\* another namespace of the cluster, and the secrets it holds: one that has the name of
\* a token and none of a token's data
OtherNamespace == "default"
OtherSecrets == [n \in {"t1"} |-> [userID |-> "", clusterName |-> "", ttl |-> "",
                                    enabled |-> "", hashedToken |-> ""]]
\* secretCache.Get(namespace, name): the cache holds the secrets of every namespace
CacheGet(cache, namespace, name) ==
    IF namespace = tokenNamespace /\ name \in DOMAIN cache
    THEN [found |-> TRUE, data |-> cache[name]]
    ELSE IF namespace = OtherNamespace /\ name \in DOMAIN OtherSecrets
    THEN [found |-> TRUE, data |-> OtherSecrets[name]]
    ELSE [found |-> FALSE, data |-> <<>>]

\* the RancherTokens a caller may send: ObjectMeta (Name, Namespace), Spec and Status
TokenRequests ==
    [name : TokenNames, namespace : {"", tokenNamespace, OtherNamespace}, userID : Users,
     clusterName : {"local"}, ttl : {"0"}, enabled : {"true"},
     hashedToken : {""}, plaintextToken : {"", ChosenValue}]
\* no token is returned
NoToken == [name |-> "nil"]

\* no call of the token store is in progress
NoTokenCall == [op |-> "none"]

\* the errors the store returns, by the message they start with
TokenOK == "nil"
ErrGenerate == "unable to generate token value"
ErrHash == "unable to hash token value"
ErrCheck == "unable to check if user has * on tokens"
ErrOtherUser == "can't create token for other user"
ErrSecretCreate == "unable to create secret for token"
ErrCurrentToken == "unable to get current token"
ErrSecretUpdate == "unable to update token"
ErrGetToken == "unable to get token"
ErrListTokens == "unable to list tokens"
ErrSecretExistence == "unable to confirm secret existence"
ErrSecretDelete == "unable to delete secret"

\* lines 190-205: secretFromToken: the Spec and the hashed value go into StringData, Data
\* is empty
secretFromToken(token) ==
    [namespace |-> tokenNamespace, name |-> token.name, data |-> <<>>,
     stringData |-> [userID |-> token.userID, clusterName |-> token.clusterName,
                     ttl |-> token.ttl, enabled |-> token.enabled,
                     hashedToken |-> token.hashedToken]]

\* the API server keeps a secret's StringData merged into its Data
StoredData(secret) ==
    [k \in DOMAIN secret.data \cup DOMAIN secret.stringData |->
        IF k \in DOMAIN secret.stringData THEN secret.stringData[k] ELSE secret.data[k]]

\* lines 207-223: tokenFromSecret: name, Spec and hashed value from the secret's Data
tokenFromSecret(name, data) ==
    [name |-> name, namespace |-> "", userID |-> data.userID,
     clusterName |-> data.clusterName, ttl |-> data.ttl, enabled |-> data.enabled,
     hashedToken |-> data.hashedToken, plaintextToken |-> ""]

\* what sar.Create answers: the review's Status.Allowed, or an error
SarAnswers == {"allowed", "denied", "err"}
\* lines 168-188: userHasFullPermissions
userHasFullPermissions_Mutant(answer) == [authed |-> TRUE, err |-> TokenOK]
userHasFullPermissions(answer) ==
    IF answer = "err" THEN [authed |-> FALSE, err |-> "uanble to create SAR"]
    ELSE [authed |-> answer = "allowed", err |-> TokenOK]

\* lines 51-59, 72-80, 107-115, 152-160: the check of a call by user for a token of
\* owner: the error it ends the call with, if any, and whether the review was asked for
CrossUserCheck(user, owner, answer) ==
    IF owner = user THEN [err |-> TokenOK, asked |-> FALSE]
    ELSE LET p == userHasFullPermissions(answer)
         IN  [err |-> IF p.err # TokenOK THEN ErrCheck
                      ELSE IF ~p.authed THEN ErrOtherUser ELSE TokenOK,
              asked |-> TRUE]

\* a call of the store ends: the error, the token and the list returned, the secrets
\* the API server holds after it, the review's answer if it was asked for
TokenResult(err, token, items, store, asked, answer) ==
    [err |-> err, token |-> token, items |-> items, secrets |-> store,
     sar |-> IF asked THEN answer ELSE "notAsked"]

\* lines 38-49: a value is generated and hashed unless the caller sent one
WithTokenValue(token) ==
    IF token.plaintextToken = ""
    THEN [token EXCEPT !.plaintextToken = GeneratedValue,
                       !.hashedToken = CreateHash(GeneratedValue)]
    ELSE token

\* lines 65-67: the token Create returns
CreatedToken_Mutant(token) == token
CreatedToken(token) == [token EXCEPT !.hashedToken = ""]

\* the calls of Create that may fail: randomtoken.Generate, CreateHash, secretClient.Create
CreateFaults == {"none", "generate", "hash", "create"}
\* lines 37-68: TokenStore.Create
TokenStoreCreateResult(user, request, answer, fault, store) ==
    LET token == WithTokenValue(request)
        check == CrossUserCheck(user, token.userID, answer)
        secret == secretFromToken(token)
    IN  IF request.plaintextToken = "" /\ fault = "generate"
        THEN TokenResult(ErrGenerate, NoToken, {}, store, FALSE, answer)
        ELSE IF request.plaintextToken = "" /\ fault = "hash"
        THEN TokenResult(ErrHash, NoToken, {}, store, FALSE, answer)
        ELSE IF check.err # TokenOK
        THEN TokenResult(check.err, NoToken, {}, store, check.asked, answer)
        ELSE IF fault = "create" \/ secret.name \in DOMAIN store
        THEN TokenResult(ErrSecretCreate, NoToken, {}, store, check.asked, answer)
        ELSE TokenResult(TokenOK, CreatedToken(token), {},
                         [n \in DOMAIN store \cup {secret.name} |->
                             IF n = secret.name THEN StoredData(secret) ELSE store[n]],
                         check.asked, answer)

\* the call of Update that may fail: secretClient.Update
UpdateFaults == {"none", "update"}
\* lines 70-98: TokenStore.Update
TokenStoreUpdateResult(user, request, answer, fault, cache, store) ==
    LET check == CrossUserCheck(user, request.userID, answer)
    IN  IF check.err # TokenOK
        THEN TokenResult(check.err, NoToken, {}, store, check.asked, answer)
        ELSE IF ~CacheGet(cache, request.namespace, request.name).found
        THEN TokenResult(ErrCurrentToken, NoToken, {}, store, check.asked, answer)
        ELSE LET currentSecret == CacheGet(cache, request.namespace, request.name)
                 currentToken == tokenFromSecret(request.name, currentSecret.data)
                 token == [request EXCEPT !.hashedToken = currentToken.hashedToken,
                                          !.plaintextToken = ""]
                 secret == secretFromToken(token)
             IN  IF fault = "update" \/ secret.name \notin DOMAIN store
                 THEN TokenResult(ErrSecretUpdate, NoToken, {}, store, check.asked, answer)
                 ELSE LET newSecret == StoredData(secret)
                          newToken == tokenFromSecret(secret.name, newSecret)
                      IN  TokenResult(TokenOK,
                                      [newToken EXCEPT !.hashedToken = "",
                                                       !.plaintextToken = ""],
                                      {}, [store EXCEPT ![secret.name] = newSecret],
                                      check.asked, answer)

\* lines 100-119: TokenStore.Get: with the token found and the check passed it returns
\* nil, nil
TokenStoreGetResult(user, name, answer, cache, store) ==
    IF name \notin DOMAIN cache
    THEN TokenResult(ErrGetToken, NoToken, {}, store, FALSE, answer)
    ELSE LET token == tokenFromSecret(name, cache[name])
             check == CrossUserCheck(user, token.userID, answer)
         IN  TokenResult(check.err, NoToken, {}, store, check.asked, answer)

\* the call of List that may fail: secretCache.List
ListFaults == {"none", "list"}
\* lines 121-143: TokenStore.List
TokenStoreListResult(user, answer, fault, cache, store) ==
    LET p == userHasFullPermissions(answer)
    IN  IF fault = "list"
        THEN TokenResult(ErrListTokens, NoToken, {}, store, FALSE, answer)
        ELSE IF p.err # TokenOK
        THEN TokenResult(ErrCheck, NoToken, {}, store, TRUE, answer)
        ELSE TokenResult(TokenOK, NoToken,
                         {tokenFromSecret(n, cache[n]) :
                             n \in {m \in DOMAIN cache : p.authed \/ cache[m].userID = user}},
                         store, TRUE, answer)

\* the call of Delete that may fail: secretClient.Delete
DeleteFaults == {"none", "delete"}
\* lines 145-166: TokenStore.Delete
TokenStoreDeleteResult(user, name, answer, fault, cache, store) ==
    IF name \notin DOMAIN cache
    THEN TokenResult(ErrSecretExistence, NoToken, {}, store, FALSE, answer)
    ELSE LET token == tokenFromSecret(name, cache[name])
             check == CrossUserCheck(user, token.userID, answer)
         IN  IF check.err # TokenOK
             THEN TokenResult(check.err, NoToken, {}, store, check.asked, answer)
             ELSE IF fault = "delete" \/ name \notin DOMAIN store
             THEN TokenResult(ErrSecretDelete, NoToken, {}, store, check.asked, answer)
             ELSE TokenResult(TokenOK, NoToken, {},
                              [n \in DOMAIN store \ {name} |-> store[n]],
                              check.asked, answer)

\* a call of the store by user, for the token name of owner, has returned r
TokenCalled(op, user, name, owner, r) ==
    /\ tokenCall' = [op |-> op, user |-> user, name |-> name, owner |-> owner,
                     err |-> r.err, token |-> r.token, items |-> r.items, sar |-> r.sar]
    /\ secrets' = r.secrets
    /\ UNCHANGED <<handlerVars, extVars, secretCache, tokens, uaCall>>

\* the review is answered only when the call asks for it
Asked(r, answer) == r.sar = "notAsked" => answer = "denied"

TokenStoreCreate ==
    /\ tokenCall = NoTokenCall
    /\ \E user \in Users, request \in TokenRequests, answer \in SarAnswers, fault \in CreateFaults :
           LET r == TokenStoreCreateResult(user, request, answer, fault, secrets)
           IN  /\ request.namespace = ""
               /\ Asked(r, answer)
               /\ TokenCalled("Create", user, request.name, request.userID, r)

TokenStoreUpdate ==
    /\ tokenCall = NoTokenCall
    /\ \E user \in Users, request \in TokenRequests, answer \in SarAnswers, fault \in UpdateFaults :
           LET r == TokenStoreUpdateResult(user, request, answer, fault, secretCache, secrets)
           IN  /\ request.plaintextToken = ""
               /\ Asked(r, answer)
               /\ TokenCalled("Update", user, request.name, request.userID, r)

TokenStoreGet ==
    /\ tokenCall = NoTokenCall
    /\ \E user \in Users, name \in TokenNames, answer \in SarAnswers :
           LET r == TokenStoreGetResult(user, name, answer, secretCache, secrets)
           IN  /\ Asked(r, answer)
               /\ TokenCalled("Get", user, name, "-", r)

TokenStoreList ==
    /\ tokenCall = NoTokenCall
    /\ \E user \in Users, answer \in SarAnswers, fault \in ListFaults :
           LET r == TokenStoreListResult(user, answer, fault, secretCache, secrets)
           IN  /\ Asked(r, answer)
               /\ TokenCalled("List", user, "-", "-", r)

TokenStoreDelete ==
    /\ tokenCall = NoTokenCall
    /\ \E user \in Users, name \in TokenNames, answer \in SarAnswers, fault \in DeleteFaults :
           LET r == TokenStoreDeleteResult(user, name, answer, fault, secretCache, secrets)
           IN  /\ Asked(r, answer)
               /\ TokenCalled("Delete", user, name, "-", r)

\* the caller has taken what the store returned: the next call may come
TokenReturned ==
    /\ tokenCall # NoTokenCall
    /\ tokenCall' = NoTokenCall
    /\ UNCHANGED <<handlerVars, extVars, secrets, secretCache, tokens, uaCall>>

\* the informer catches up: secretCache holds what the API server holds
SecretSync ==
    /\ tokenCall = NoTokenCall
    /\ secretCache # secrets
    /\ secretCache' = secrets
    /\ UNCHANGED <<handlerVars, extVars, secrets, tokenCall, tokens, uaCall>>

(***************************************************************************)
(* The user-activity store (pkg/ext/stores/useractivity)                    *)
(***************************************************************************)
\* the names of the tokens the token controller is asked for
MgmtTokenNames == {"tok1", "tok2"}
\* time.Minute, in seconds
Minute == 60
\* time.Now() of a request, in seconds, and the values of the idle TTL setting, in minutes
Times == 0..MaxNow
IdleTTLs == 0..MaxIdleTTL
\* the zero metav1.Time of a token whose idle timeout was never set
ZeroTime == 0
\* metav1.Time.String()
TimeString(t) == ToString(t)

\* setUserActivityName(user, token): the name that encodes the pair
setUserActivityName(user, token) == <<"ua", user, token>>
\* getUserActivityName(uaname): the pair a name encodes, or an error
getUserActivityName(uaname) ==
    IF Len(uaname) = 3 /\ uaname[1] = "ua"
    THEN [user |-> uaname[2], token |-> uaname[3], err |-> FALSE]
    ELSE [user |-> "", token |-> "", err |-> TRUE]
\* the names of the requests: those that encode a pair and some that do not
UANames ==
    {setUserActivityName(u, t) : u \in Users, t \in MgmtTokenNames}
    \cup {<<"ua", "u1">>, <<"xx", "u1", "tok1">>}

\* the runtime.Objects Create is given: UserActivities, and an object of another type
NotAUserActivity == [kind |-> "Other"]
CreateObjects ==
    {NotAUserActivity} \cup [kind : {"UserActivity"}, name : UANames, tokenId : MgmtTokenNames]
\* no object is returned
NoUserActivity == [kind |-> "nil"]

\* the errors the store returns, by the message they start with
UAOK == "nil"
ErrCast == "error casting runtime object to useractivity"
ErrTokenGet == "failed to get token"
ErrUAName == "useractivity name mismatch"
ErrTokenName == "token name mismatch"
ErrTokenUpdate == "failed to update token"
ErrUnableDelete == "unable to delete useractivity"
ErrWrongName == "wrong useractivity name"
ErrUserMismatch == "user provided mismatches from expected"
ErrUnableList == "unable to list useractivity"
ErrUnableUpdate == "unable to update useractivity"
ErrUnableWatch == "unable to watch useractivity"

\* a call of the store ends: the error and the object returned, the tokens after it, the
\* calls of tokenController.Get and tokenController.Update it made
UAResult(err, ua, toks, gets, updates) ==
    [err |-> err, ua |-> ua, tokens |-> toks, gets |-> gets, updates |-> updates]

\* lines 136-138: lastActivity.Add(time.Minute * time.Duration(authUserSessionIdleTTLMinutes))
NewIdleTimeout_Mutant(lastActivity, authUserSessionIdleTTLMinutes) ==
    lastActivity + authUserSessionIdleTTLMinutes
NewIdleTimeout(lastActivity, authUserSessionIdleTTLMinutes) ==
    lastActivity + Minute * authUserSessionIdleTTLMinutes

\* the token is updated before the request is validated
create_Mutant(userActivity, tokenName, toks, user, lastActivity, authUserSessionIdleTTLMinutes, fault) ==
    LET newIdleTimeout == NewIdleTimeout(lastActivity, authUserSessionIdleTTLMinutes)
        updated == [toks EXCEPT ![tokenName].lastIdleTimeout = newIdleTimeout]
    IN  IF userActivity.name # setUserActivityName(user, tokenName)
        THEN UAResult(ErrUAName, NoUserActivity, updated, 1, 1)
        ELSE IF fault = "update"
        THEN UAResult(ErrTokenUpdate, NoUserActivity, toks, 1, 1)
        ELSE UAResult(UAOK,
                      [kind |-> "UserActivity", name |-> userActivity.name,
                       tokenId |-> userActivity.tokenId,
                       lastActivity |-> TimeString(lastActivity),
                       currentTimeout |-> TimeString(newIdleTimeout)],
                      updated, 1, 1)

\* the calls of Create that may fail: tokenController.Get and tokenController.Update
UACreateFaults == {"none", "get", "update"}
\* lines 114-148: Store.create
create(userActivity, tokenName, toks, user, lastActivity, authUserSessionIdleTTLMinutes, fault) ==
    LET expectedName == setUserActivityName(user, tokenName)
        newIdleTimeout == NewIdleTimeout(lastActivity, authUserSessionIdleTTLMinutes)
    IN  IF userActivity.name # expectedName
        THEN UAResult(ErrUAName, NoUserActivity, toks, 1, 0)
        ELSE IF tokenName # userActivity.tokenId
        THEN UAResult(ErrTokenName, NoUserActivity, toks, 1, 0)
        ELSE IF fault = "update"
        THEN UAResult(ErrTokenUpdate, NoUserActivity, toks, 1, 1)
        ELSE UAResult(UAOK,
                      [kind |-> "UserActivity", name |-> userActivity.name,
                       tokenId |-> userActivity.tokenId,
                       lastActivity |-> TimeString(lastActivity),
                       currentTimeout |-> TimeString(newIdleTimeout)],
                      [toks EXCEPT ![tokenName].lastIdleTimeout = newIdleTimeout], 1, 1)

\* lines 87-110: Store.Create
StoreCreateResult(obj, toks, now, idleTimeout, fault) ==
    IF obj = NotAUserActivity
    THEN UAResult(ErrCast, NoUserActivity, toks, 0, 0)
    ELSE IF fault = "get" \/ obj.tokenId \notin DOMAIN toks
    THEN UAResult(ErrTokenGet, NoUserActivity, toks, 1, 0)
    ELSE create(obj, obj.tokenId, toks, toks[obj.tokenId].userID, now, idleTimeout, fault)

\* lines 186-196: the UserActivity made from the name asked for and the token
CraftedUserActivity_Mutant(uaname, tokenName, token) ==
    [kind |-> "UserActivity", name |-> uaname, tokenId |-> tokenName,
     lastActivity |-> "", currentTimeout |-> TimeString(ZeroTime)]
CraftedUserActivity(uaname, tokenName, token) ==
    [kind |-> "UserActivity", name |-> uaname, tokenId |-> tokenName,
     lastActivity |-> "", currentTimeout |-> TimeString(token.lastIdleTimeout)]

\* the call of Get that may fail: tokenController.Get
UAGetFaults == {"none", "get"}
\* lines 161-199: Store.Get and Store.get
StoreGetResult(uaname, toks, fault) ==
    LET n == getUserActivityName(uaname)
    IN  IF n.err
        THEN UAResult(ErrWrongName, NoUserActivity, toks, 0, 0)
        ELSE IF fault = "get" \/ n.token \notin DOMAIN toks
        THEN UAResult(ErrTokenGet, NoUserActivity, toks, 1, 0)
        ELSE IF toks[n.token].userID # n.user
        THEN UAResult(ErrUserMismatch, NoUserActivity, toks, 1, 0)
        ELSE UAResult(UAOK, CraftedUserActivity(uaname, n.token, toks[n.token]), toks, 1, 0)

\* lines 152-158, 208-212, 224-238: Delete, List, Update and Watch return their error
Unsupported_Mutant(err, toks) == UAResult(err, NoUserActivity, toks, 1, 0)
Unsupported(err, toks) == UAResult(err, NoUserActivity, toks, 0, 0)

\* no call of the user-activity store is in progress
NoUACall == [op |-> "none"]

\* a call of the store by principal has returned r
UACalled(op, principal, name, tokenId, now, ttl, r) ==
    /\ uaCall' = [op |-> op, principal |-> principal, name |-> name, tokenId |-> tokenId,
                  now |-> now, ttl |-> ttl, err |-> r.err, ua |-> r.ua,
                  gets |-> r.gets, updates |-> r.updates]
    /\ tokens' = r.tokens
    /\ UNCHANGED <<handlerVars, extVars, secrets, secretCache, tokenCall>>

\* a fault is injected only into a call that is made
FaultHit(r, fault) ==
    /\ fault = "get" => r.err = ErrTokenGet
    /\ fault = "update" => r.err = ErrTokenUpdate

StoreCreate ==
    /\ uaCall = NoUACall
    /\ \E principal \in Users, obj \in CreateObjects, now \in Times, ttl \in IdleTTLs,
          fault \in UACreateFaults :
           LET r == StoreCreateResult(obj, tokens, now, ttl, fault)
           IN  /\ FaultHit(r, fault)
               /\ UACalled("Create", principal,
                           IF obj = NotAUserActivity THEN <<>> ELSE obj.name,
                           IF obj = NotAUserActivity THEN "-" ELSE obj.tokenId, now, ttl, r)

StoreGet ==
    /\ uaCall = NoUACall
    /\ \E principal \in Users, uaname \in UANames, fault \in UAGetFaults :
           LET r == StoreGetResult(uaname, tokens, fault)
           IN  /\ FaultHit(r, fault)
               /\ UACalled("Get", principal, uaname, "-", 0, 0, r)

StoreDelete ==
    /\ uaCall = NoUACall
    /\ \E principal \in Users, uaname \in UANames :
           UACalled("Delete", principal, uaname, "-", 0, 0, Unsupported(ErrUnableDelete, tokens))

StoreList ==
    /\ uaCall = NoUACall
    /\ \E principal \in Users :
           UACalled("List", principal, <<>>, "-", 0, 0, Unsupported(ErrUnableList, tokens))

StoreUpdate ==
    /\ uaCall = NoUACall
    /\ \E principal \in Users, uaname \in UANames :
           UACalled("Update", principal, uaname, "-", 0, 0, Unsupported(ErrUnableUpdate, tokens))

StoreWatch ==
    /\ uaCall = NoUACall
    /\ \E principal \in Users :
           UACalled("Watch", principal, <<>>, "-", 0, 0, Unsupported(ErrUnableWatch, tokens))

\* the caller has taken what the store returned: the next call may come
UAReturned ==
    /\ uaCall # NoUACall
    /\ uaCall' = NoUACall
    /\ UNCHANGED <<handlerVars, extVars, secrets, secretCache, tokenCall, tokens>>

(***************************************************************************)
(* The extension API server (pkg/ext/apiserver.go).  A path is the sequence *)
(* of its segments and of the separators between them: "/apis/g1" is        *)
(* <<"/", "apis", "/", "g1">>.                                              *)
(***************************************************************************)
\* calls of AddAPIResource
MaxResources == 2
Slash == "/"
GroupVersions == {<<"g1", "v1">>, <<"g2", "v1">>}
ResourceNames == {"r1", "r2"}
Handlers == {"h1", "h2"}
\* metav1.APIResource: its name and whether it is namespaced
APIResources == [name : ResourceNames, namespaced : BOOLEAN]
GVR(groupVersion, resource) == <<groupVersion[1], groupVersion[2], resource>>

\* the path with these segments
RECURSIVE PathOf(_)
PathOf(segments) ==
    IF segments = <<>> THEN <<>> ELSE <<Slash, Head(segments)>> \o PathOf(Tail(segments))
\* what follows /apis/<group>/<version> in the requests served: nothing, a resource, a
\* resource and an object name (which may be the name of another resource), and the same
\* below namespaces/<namespace>
RequestTails ==
    {<<>>, <<"namespaces">>, <<"namespaces", "ns1">>}
      \cup {<<r>> : r \in ResourceNames \cup {"r3"}}
      \cup {<<r, n>> : r \in ResourceNames \cup {"r3"}, n \in {"obj", "r2"}}
      \cup {<<"namespaces", "ns1", r>> : r \in ResourceNames \cup {"r3"}}
      \cup {<<"namespaces", "ns1", r, n>> : r \in ResourceNames, n \in {"obj"}}
\* the paths requested, with and without a trailing separator
RequestPaths ==
    {PathOf(<<"apis">>)}
      \cup {PathOf(<<"apis", gv[1], gv[2]>> \o tail) \o trailing :
                gv \in GroupVersions, tail \in RequestTails, trailing \in {<<>>, <<Slash>>}}

\* strings.Trim(path, "/")
RECURSIVE TrimLeft(_)
TrimLeft(path) == IF path # <<>> /\ Head(path) = Slash THEN TrimLeft(Tail(path)) ELSE path
RECURSIVE TrimRight(_)
TrimRight(path) ==
    IF path # <<>> /\ path[Len(path)] = Slash
    THEN TrimRight(SubSeq(path, 1, Len(path) - 1))
    ELSE path
Trim(path) == TrimRight(TrimLeft(path))
\* strings.Split(s, "/"): the segments between the separators, empty ones included; the
\* empty string gives one empty segment
RECURSIVE Split(_)
Split(s) ==
    IF s = <<>> THEN <<"">>
    ELSE IF Head(s) = Slash THEN <<"">> \o Split(Tail(s))
    ELSE IF Len(s) = 1 THEN <<Head(s)>>
    ELSE <<Head(s)>> \o Split(Tail(Tail(s)))
\* strings.HasPrefix, on which PathPrefix routes match
HasPrefix(path, prefix) ==
    Len(prefix) <= Len(path) /\ SubSeq(path, 1, Len(prefix)) = prefix

SplitOK == "nil"
ErrNoNamespaceResource == "could not find namespace and resource in path"
ErrWrongFormat == "wrong format in path"
ErrNoResource == "could not find resource in path"
\* what a split returns; panics: the function indexed a slice past its end and the
\* goroutine panicked instead of returning
SplitResult(namespace, resource, err, panics) ==
    [namespace |-> namespace, resource |-> resource, err |-> err, panics |-> panics]

splitNamespaceResource(path) ==
    LET list == Split(Trim(path))
    IN  IF Len(list) < 4
        THEN SplitResult("", "", ErrNoNamespaceResource, FALSE)
        ELSE LET lastSegments == SubSeq(list, 4, Len(list))
             IN  IF lastSegments[1] # "namespaces"
                 THEN SplitResult("", "", ErrWrongFormat, FALSE)
                 ELSE IF Len(lastSegments) < 3
                 THEN SplitResult("", "", SplitOK, TRUE)
                 ELSE SplitResult(lastSegments[2], lastSegments[3], SplitOK, FALSE)

splitResource(path) ==
    LET list == Split(Trim(path))
    IN  IF Len(list) < 4
        THEN SplitResult("", "", ErrNoResource, FALSE)
        ELSE SplitResult("", list[Len(list)], SplitOK, FALSE)

\* NewAPIServer
NewAPIServer == [resourceList |-> <<>>, delegates |-> <<>>, namespacedDelegates |-> <<>>]
\* m[k] = v on a Go map
MapSet(m, k, v) == [x \in DOMAIN m \cup {k} |-> IF x = k THEN v ELSE m[x]]
\* resources registered so far, over all group/versions
NumResources(as) ==
    LET RECURSIVE Sum(_)
        Sum(S) == IF S = {} THEN 0
                  ELSE LET gv == CHOOSE x \in S : TRUE
                       IN  Len(as.resourceList[gv]) + Sum(S \ {gv})
    IN  Sum(DOMAIN as.resourceList)

\* the responses of the server
StatusDelegate == "delegate"
StatusNotFound == "404 Not Found"
StatusNotAcceptable == "406 Not Acceptable"
StatusServerError == "500 Internal Server Error"
StatusDiscovery == "discovery"
\* the goroutine serving the request panicked: net/http drops the connection
StatusPanic == "panic"
NoAPICall == [path |-> <<>>, status |-> "none", invoked |-> <<>>]
APIResponse(path, status, invoked) == [path |-> path, status |-> status, invoked |-> invoked]

\* https.ErrorHTTPHandler around a delegate: a delegate that returns an error gives 500
Delegated(path, delegate, namespace, fails) ==
    APIResponse(path, IF fails THEN StatusServerError ELSE StatusDelegate,
                <<<<delegate, namespace>>>>)

namespacedResourceHandler(as, groupVersion, path, fails) ==
    LET split == splitNamespaceResource(path)
        gvr == GVR(groupVersion, split.resource)
    IN  IF split.panics THEN APIResponse(path, StatusPanic, <<>>)
        ELSE IF split.err # SplitOK THEN APIResponse(path, StatusNotFound, <<>>)
        ELSE IF gvr \notin DOMAIN as.namespacedDelegates
        THEN APIResponse(path, StatusNotFound, <<>>)
        ELSE Delegated(path, as.namespacedDelegates[gvr], split.namespace, fails)

resourceHandler(as, groupVersion, path, fails) ==
    LET split == splitResource(path)
        gvr == GVR(groupVersion, split.resource)
    IN  IF split.err # SplitOK THEN APIResponse(path, StatusNotFound, <<>>)
        ELSE IF gvr \notin DOMAIN as.delegates THEN APIResponse(path, StatusNotFound, <<>>)
        ELSE Delegated(path, as.delegates[gvr], "", fails)

\* the patterns of the routes RegisterRoutes adds for a group/version
DiscoveryPattern(groupVersion) == PathOf(<<"apis", groupVersion[1], groupVersion[2]>>)
NamespacedPattern(groupVersion) ==
    PathOf(<<"apis", groupVersion[1], groupVersion[2], "namespaces">>) \o <<Slash>>
ResourcePattern(groupVersion) == DiscoveryPattern(groupVersion) \o <<Slash>>
\* the routes RegisterRoutes adds: /apis and, for each group/version with a resource list,
\* discovery, then the namespaced resources, then the cluster resources
Routes(as) ==
    {<<"apis", <<>>>>}
      \cup {<<kind, gv>> : kind \in {"discovery", "namespaced", "resource"},
                          gv \in DOMAIN as.resourceList}
Routed(routes, kind) == {route[2] : route \in {r \in routes : r[1] = kind}}

\* the router serves a request with the first route that matches its path; the patterns
\* of two group/versions never match the same path
ServeHTTP(as, routes, path, fails) ==
    LET namespaced == {gv \in Routed(routes, "namespaced") : HasPrefix(path, NamespacedPattern(gv))}
        resource == {gv \in Routed(routes, "resource") : HasPrefix(path, ResourcePattern(gv))}
    IN  IF path = PathOf(<<"apis">>) /\ <<"apis", <<>>>> \in routes
        THEN APIResponse(path, StatusNotAcceptable, <<>>)
        ELSE IF \E gv \in Routed(routes, "discovery") : path = DiscoveryPattern(gv)
        THEN APIResponse(path, StatusDiscovery, <<>>)
        ELSE IF namespaced # {}
        THEN namespacedResourceHandler(as, CHOOSE gv \in namespaced : TRUE, path, fails)
        ELSE IF resource # {}
        THEN resourceHandler(as, CHOOSE gv \in resource : TRUE, path, fails)
        ELSE APIResponse(path, StatusNotFound, <<>>)

AddAPIResource(groupVersion, resource, handler) ==
    /\ apiCall = NoAPICall
    /\ NumResources(apiServer) < MaxResources
    /\ LET list == IF groupVersion \in DOMAIN apiServer.resourceList
                   THEN apiServer.resourceList[groupVersion]
                   ELSE <<>>
           gvr == GVR(groupVersion, resource.name)
       IN  apiServer' =
             [apiServer EXCEPT
                !.resourceList = MapSet(@, groupVersion, Append(list, resource)),
                !.namespacedDelegates = IF resource.namespaced THEN MapSet(@, gvr, handler) ELSE @,
                !.delegates = IF resource.namespaced THEN @ ELSE MapSet(@, gvr, handler)]
    /\ UNCHANGED <<handlerVars, storeVars, router, apiCall, ulCall, fake, machinesCall>>

\* the routes of every group/version that has a resource list are put on the router
RegisterRoutes ==
    /\ apiCall = NoAPICall
    /\ ~(Routes(apiServer) \subseteq router)
    /\ router' = router \cup Routes(apiServer)
    /\ UNCHANGED <<handlerVars, storeVars, apiServer, apiCall, ulCall, fake, machinesCall>>

\* a request arrives and is answered
Request ==
    /\ apiCall = NoAPICall
    /\ \E path \in RequestPaths, fails \in BOOLEAN :
           /\ apiCall' = ServeHTTP(apiServer, router, path, fails)
           /\ fails => apiCall'.invoked # <<>>
    /\ UNCHANGED <<handlerVars, storeVars, apiServer, router, ulCall, fake, machinesCall>>

APIReturned ==
    /\ apiCall # NoAPICall
    /\ apiCall' = NoAPICall
    /\ UNCHANGED <<handlerVars, storeVars, apiServer, router, ulCall, fake, machinesCall>>

(***************************************************************************)
(* The user lifecycle: deleteAllCRTB and deleteAllPRTB, and the tables of   *)
(* Test_deleteAllCRTB and Test_deleteAllPRTB with the calls their mocks     *)
(* expect                                                                   *)
(***************************************************************************)
\* bindings in the list passed to deleteAllCRTB or deleteAllPRTB
MaxBindings == 2
\* ObjectMeta of a binding
Meta(namespace, name) == [namespace |-> namespace, name |-> name]
ULBindings == {Meta(ns, n) : ns \in {"", "testnamespace"}, n \in {"testuser", "testuser-2"}}
\* a call of the client: Delete(name, options) or DeleteNamespaced(namespace, name, options)
DeleteCall(method, namespace, name) == [method |-> method, namespace |-> namespace, name |-> name]

\* the deletes issued for bindings[i..] and whether an error is returned; failing: the
\* positions whose delete fails; stops: whether the first failure ends the loop
RECURSIVE deleteAll(_, _, _, _)
deleteAll(bindings, failing, i, stops) ==
    IF i > Len(bindings) THEN [calls |-> <<>>, err |-> FALSE]
    ELSE LET b == bindings[i]
             call == IF b.namespace = ""
                     THEN DeleteCall("Delete", "", b.name)
                     ELSE DeleteCall("DeleteNamespaced", b.namespace, b.name)
             rest == IF i \in failing /\ stops
                     THEN [calls |-> <<>>, err |-> FALSE]
                     ELSE deleteAll(bindings, failing, i + 1, stops)
         IN  [calls |-> <<call>> \o rest.calls, err |-> i \in failing \/ rest.err]

\* gomock.Any()
GomockAny == "gomock.Any()"
\* the mock expects the plain delete where the table expects the namespaced one
ExpectDeleteNamespaced_Mutant(namespace, name, fails) ==
    [method |-> "Delete", namespace |-> "", name |-> name, fails |-> fails]
\* EXPECT().Delete(name, options).Return(err)
ExpectDelete(name, fails) ==
    [method |-> "Delete", namespace |-> "", name |-> name, fails |-> fails]
\* EXPECT().DeleteNamespaced(namespace, name, options).Return(err)
ExpectDeleteNamespaced(namespace, name, fails) ==
    [method |-> "DeleteNamespaced", namespace |-> namespace, name |-> name, fails |-> fails]
TestCase(name, input, expected, expectedError) ==
    [name |-> name, input |-> input, expected |-> expected, expectedError |-> expectedError]

Tests_deleteAllCRTB ==
    {TestCase("crtb deleted properly",
              <<Meta("", "testuser")>>,
              <<ExpectDelete(GomockAny, FALSE)>>, FALSE),
     TestCase("crtbs deleted properly",
              <<Meta("", "testuser"), Meta("", "testuser-2")>>,
              <<ExpectDelete(GomockAny, FALSE), ExpectDelete(GomockAny, FALSE)>>, FALSE),
     TestCase("namespaced crtbs deleted properly",
              <<Meta("testnamespace", "testuser"), Meta("testnamespace", "testuser-2")>>,
              <<ExpectDeleteNamespaced(GomockAny, GomockAny, FALSE), ExpectDeleteNamespaced(GomockAny, GomockAny, FALSE)>>,
              FALSE),
     TestCase("crtbs (non and namespaced) deleted properly",
              <<Meta("", "testuser"), Meta("testnamespace", "testuser-2")>>,
              <<ExpectDelete(GomockAny, FALSE), ExpectDeleteNamespaced(GomockAny, GomockAny, FALSE)>>, FALSE),
     TestCase("crtbs (non and namespaced) not deleted properly",
              <<Meta("", "testuser"), Meta("testnamespace", "testuser-2")>>,
              <<ExpectDelete(GomockAny, FALSE), ExpectDeleteNamespaced(GomockAny, GomockAny, TRUE)>>, TRUE),
     TestCase("crtbs not deleted properly",
              <<Meta("", "testuser")>>,
              <<ExpectDelete(GomockAny, TRUE)>>, TRUE)}

Tests_deleteAllPRTB ==
    {TestCase("remove namespaced prtb",
              <<Meta("testprtbns", "testprtb")>>,
              <<ExpectDeleteNamespaced("testprtbns", "testprtb", FALSE)>>, FALSE),
     TestCase("remove all prtb",
              <<Meta("testprtbns", "testprtb"), Meta("", "testprtb2")>>,
              <<ExpectDeleteNamespaced("testprtbns", "testprtb", FALSE),
                ExpectDelete("testprtb2", FALSE)>>, FALSE),
     TestCase("error deleting namespaced prtb",
              <<Meta("testprtbns", "testprtb")>>,
              <<ExpectDeleteNamespaced("testprtbns", "testprtb", TRUE)>>, TRUE),
     TestCase("error deleting prtb",
              <<Meta("", "testprtb")>>,
              <<ExpectDelete("testprtb", TRUE)>>, TRUE)}

NoULCall == [op |-> "none", test |-> "", input |-> <<>>, failing |-> {}, expected |-> <<>>,
             expectedError |-> FALSE, calls |-> <<>>, err |-> FALSE]
ULCalled(op, test, input, failing, expected, expectedError, r) ==
    [op |-> op, test |-> test, input |-> input, failing |-> failing, expected |-> expected,
     expectedError |-> expectedError, calls |-> r.calls, err |-> r.err]

\* deleteAllCRTB or deleteAllPRTB is called with a list of bindings; the client fails the
\* deletes of some of them
DeleteAll(op) ==
    /\ ulCall = NoULCall
    /\ \E input \in SeqsUpTo(ULBindings, MaxBindings) :
         \E failing \in SUBSET (1..Len(input)), stops \in BOOLEAN :
           ulCall' = ULCalled(op, "", input, failing, <<>>, FALSE,
                              deleteAll(input, failing, 1, stops))
    /\ UNCHANGED <<handlerVars, storeVars, apiServer, router, apiCall, fake, machinesCall>>
deleteAllCRTB == DeleteAll("deleteAllCRTB")
deleteAllPRTB == DeleteAll("deleteAllPRTB")

\* one case of a test table: the mock returns what the case's expectations say, in order
RunTest(op, tests) ==
    /\ ulCall = NoULCall
    /\ \E tt \in tests, stops \in BOOLEAN :
         LET failing == {i \in 1..Len(tt.expected) : tt.expected[i].fails}
         IN  ulCall' = ULCalled(op, tt.name, tt.input, failing, tt.expected, tt.expectedError,
                                deleteAll(tt.input, failing, 1, stops))
    /\ UNCHANGED <<handlerVars, storeVars, apiServer, router, apiCall, fake, machinesCall>>
Test_deleteAllCRTB == RunTest("deleteAllCRTB", Tests_deleteAllCRTB)
Test_deleteAllPRTB == RunTest("deleteAllPRTB", Tests_deleteAllPRTB)

ULReturned ==
    /\ ulCall # NoULCall
    /\ ulCall' = NoULCall
    /\ UNCHANGED <<handlerVars, storeVars, apiServer, router, apiCall, fake, machinesCall>>

(***************************************************************************)
(* The fake clientset of CustomMachines                                     *)
(***************************************************************************)
\* CustomMachines the fake holds
MaxMachines == 2
MachineNames == {"m1", "m2", "m3"}
MachineLabels == {{}, {<<"role", "a">>}, {<<"role", "b">>}, {<<"role", "a">>, <<"env", "x">>}}
\* v1.CustomMachine: its name and labels
CustomMachines == [name : MachineNames, labels : MachineLabels]
\* a requirement of a label selector: key=value or key!=value
Requirement(key, operator, value) == [key |-> key, operator |-> operator, value |-> value]
\* metav1.ListOptions.LabelSelector, parsed: "" (no selector) has no requirement
LabelSelectors ==
    {{},
     {Requirement("role", "=", "a")},
     {Requirement("role", "!=", "a")},
     {Requirement("role", "=", "a"), Requirement("env", "=", "x")}}

\* every item matches
SelectorMatches_Mutant(label, set) == TRUE
\* label.Matches(labels.Set(item.Labels))
SelectorMatches(label, set) ==
    \A r \in label :
        IF r.operator = "=" THEN <<r.key, r.value>> \in set
        ELSE <<r.key, r.value>> \notin set

\* what Fake.Invokes returns for a list action: the list of the tracker, or what a
\* reactor put in front of it returns
NoObject == [nil |-> TRUE, items |-> <<>>]
FakeOK == "nil"
ErrReactor == "reactor error"
Reactions == {"tracker", "nil and error", "list and error"}
Invokes(f) ==
    [obj |-> IF f.reaction = "nil and error" THEN NoObject
             ELSE [nil |-> FALSE, items |-> f.items],
     err |-> IF f.reaction = "tracker" THEN FakeOK ELSE ErrReactor]

\* the loop of List: the items that match are appended in order
RECURSIVE Filtered(_, _)
Filtered(items, label) ==
    IF items = <<>> THEN <<>>
    ELSE IF SelectorMatches(label, Head(items).labels)
    THEN <<Head(items)>> \o Filtered(Tail(items), label)
    ELSE Filtered(Tail(items), label)

NoList == [nil |-> TRUE, items |-> <<>>]
FakeCustomMachinesListResult(f, label) ==
    LET r == Invokes(f)
    IN  IF r.obj.nil
        THEN [result |-> NoList, err |-> r.err]
        ELSE [result |-> [nil |-> FALSE, items |-> Filtered(r.obj.items, label)], err |-> r.err]

NewFake == [items |-> <<>>, reaction |-> "tracker"]
NoMachinesCall == [op |-> "none", label |-> {}, result |-> NoList, err |-> FakeOK]

\* an object is added to the tracker of the fake
TrackerAdd ==
    /\ machinesCall = NoMachinesCall
    /\ Len(fake.items) < MaxMachines
    /\ \E m \in CustomMachines :
           /\ \A i \in 1..Len(fake.items) : fake.items[i].name # m.name
           /\ fake' = [fake EXCEPT !.items = Append(@, m)]
    /\ UNCHANGED <<handlerVars, storeVars, apiServer, router, apiCall, ulCall, machinesCall>>

\* a test puts a reactor in front of the tracker, or takes it away
PrependReactor ==
    /\ machinesCall = NoMachinesCall
    /\ \E reaction \in Reactions \ {fake.reaction} : fake' = [fake EXCEPT !.reaction = reaction]
    /\ UNCHANGED <<handlerVars, storeVars, apiServer, router, apiCall, ulCall, machinesCall>>

FakeCustomMachinesList ==
    /\ machinesCall = NoMachinesCall
    /\ \E label \in LabelSelectors :
           LET r == FakeCustomMachinesListResult(fake, label)
           IN  machinesCall' = [op |-> "List", label |-> label, result |-> r.result, err |-> r.err]
    /\ UNCHANGED <<handlerVars, storeVars, apiServer, router, apiCall, ulCall, fake>>

MachinesReturned ==
    /\ machinesCall # NoMachinesCall
    /\ machinesCall' = NoMachinesCall
    /\ UNCHANGED <<handlerVars, storeVars, apiServer, router, apiCall, ulCall, fake>>

\* the extension API server, the user lifecycle and the fake clientset are not in use
ExtIdle ==
    /\ apiServer = NewAPIServer
    /\ router = {}
    /\ apiCall = NoAPICall
    /\ ulCall = NoULCall
    /\ fake = NewFake
    /\ machinesCall = NoMachinesCall

\* the two REST stores are not in use
StoresIdle ==
    /\ secrets = <<>>
    /\ secretCache = <<>>
    /\ tokenCall = NoTokenCall
    /\ tokens = <<>>
    /\ uaCall = NoUACall

\* the handler is not in use: a new cluster and no event
HandlerIdle ==
    /\ subj = [binding |-> NilBinding, ensure |-> DefaultEnsure, get |-> DefaultGet,
               out |-> NoResult, returned |-> FALSE]
    /\ crtbStore = [c \in CRTBs |-> [exists |-> TRUE, labels |-> {}]]
    /\ crtbCache = crtbStore
    /\ crbs = <<>>
    /\ crbCache = crbs
    /\ rbs = <<>>
    /\ rbCache = rbs
    /\ reqs = {}
    /\ ownerRole = FALSE
    /\ pc = "idle"
    /\ run = NoRun
    /\ last = NothingYet
    /\ nEvents = 0
    /\ nFaults = 0

\* the token store over an empty namespace
TokensInit == HandlerIdle /\ StoresIdle /\ ExtIdle

NextTokens ==
    \/ TokenStoreCreate
    \/ TokenStoreUpdate
    \/ TokenStoreGet
    \/ TokenStoreList
    \/ TokenStoreDelete
    \/ TokenReturned
    \/ SecretSync

SpecTokens == TokensInit /\ [][NextTokens]_vars

\* the user-activity store over the tokens of the token controller: tok1 is the token of
\* one of the users, tok2 is the token of u2 or does not exist
ActivityInit ==
    /\ HandlerIdle
    /\ secrets = <<>>
    /\ secretCache = <<>>
    /\ tokenCall = NoTokenCall
    /\ \E owner \in Users, others \in {{}, {"tok2"}} :
           tokens = [t \in {"tok1"} \cup others |->
                        [userID |-> IF t = "tok1" THEN owner ELSE "u2",
                         lastIdleTimeout |-> ZeroTime]]
    /\ uaCall = NoUACall
    /\ ExtIdle

NextActivity ==
    \/ StoreCreate
    \/ StoreGet
    \/ StoreDelete
    \/ StoreList
    \/ StoreUpdate
    \/ StoreWatch
    \/ UAReturned

SpecActivity == ActivityInit /\ [][NextActivity]_vars

\* nothing is in use: a new API server, no call of the user lifecycle, an empty fake
IdleInit == HandlerIdle /\ StoresIdle /\ ExtIdle

\* the extension API server: resources are added, routes registered, requests served
NextAPI ==
    \/ \E groupVersion \in GroupVersions, resource \in APIResources, handler \in Handlers :
           AddAPIResource(groupVersion, resource, handler)
    \/ RegisterRoutes
    \/ Request
    \/ APIReturned

SpecAPI == IdleInit /\ [][NextAPI]_vars

\* the user lifecycle deletes lists of bindings, freely and as the test tables say
NextLifecycle ==
    \/ deleteAllCRTB
    \/ deleteAllPRTB
    \/ Test_deleteAllCRTB
    \/ Test_deleteAllPRTB
    \/ ULReturned

SpecLifecycle == IdleInit /\ [][NextLifecycle]_vars

\* the fake clientset: objects are added, reactors set, CustomMachines listed
NextFake ==
    \/ TrackerAdd
    \/ PrependReactor
    \/ FakeCustomMachinesList
    \/ MachinesReturned

SpecFake == IdleInit /\ [][NextFake]_vars

(***************************************************************************)
(* The system: CRTB events on a cluster upgraded from a release before 2.5  *)
(***************************************************************************)
\* the derived objects a release before 2.5 left behind: labelled with the UIDs of the
\* CRTBs they were made for
LegacySubject == [kind |-> "User", name |-> UserA]
LegacyCRB == CRBName(ClusterRoleName("crtb1", FALSE), LegacySubject)
LegacyRB(p) == <<p, RBName(RoleTemplateName("crtb1"), LegacySubject)>>
LegacyOwners == {{"crtb1"}, CRTBs}
LegacyProjects == {Projects}
LegacyCRBStore(o) == [n \in {LegacyCRB} |-> {<<UID(c), MembershipBindingOwnerLegacy>> : c \in o}]
LegacyRBStore(o, ps) ==
    [id \in {LegacyRB(p) : p \in ps} |-> {<<UID(c), CrtbInProjectBindingOwner>> : c \in o}]
\* a cluster in which crtb2 was reconciled when p2 was its only project
ReconciledCluster ==
    [crbs |-> [n \in {LegacyCRB} |-> {<<GetRTBLabel("crtb2"), MembershipBindingOwner>>}],
     rbs |-> [id \in {LegacyRB("p2")} |-> {<<GetRTBLabel("crtb2"), CrtbInProjectBindingOwner>>}]]
\* the clusters the model starts from: a new one, one with crtb2 reconciled, or one with
\* legacy objects
Clusters ==
    {[crbs |-> <<>>, rbs |-> <<>>], ReconciledCluster}
    \cup {[crbs |-> LegacyCRBStore(o), rbs |-> LegacyRBStore(o, ps)] :
             o \in LegacyOwners, ps \in LegacyProjects}

NoSubj == [binding |-> NilBinding, ensure |-> DefaultEnsure, get |-> DefaultGet,
           out |-> NoResult, returned |-> FALSE]

Init ==
    /\ subj = NoSubj
    /\ crtbStore = [c \in CRTBs |-> [exists |-> TRUE, labels |-> {}]]
    /\ crtbCache = crtbStore
    /\ \E cluster \in Clusters : crbs = cluster.crbs /\ rbs = cluster.rbs
    /\ crbCache = crbs
    /\ rbCache = rbs
    /\ reqs \in RequirementChoices
    /\ ownerRole \in BOOLEAN
    /\ pc = "idle"
    /\ run = NoRun
    /\ last = NothingYet
    /\ nEvents = 0
    /\ nFaults = 0
    /\ StoresIdle
    /\ ExtIdle

\* the steps of the label migration
Migration == CrbGet \/ CrbUpdate \/ RbList \/ RbGet \/ RbUpdate \/ CrtbGet \/ CrtbUpdate

\* the life of the CRTBs: created, updated and removed, one event at a time
Next ==
    \/ \E c \in CRTBs : Create(c)
    \/ \E c \in CRTBs : Updated(c)
    \/ \E c \in CRTBs : Remove(c)
    \/ Migration
    \/ ReconcileBindingsReturn
    \/ Returned
    \/ Sync

Spec == Init /\ [][Next]_vars

\* the label migration with other writers at work on the same objects
NextLabels ==
    \/ \E c \in CRTBs : Updated(c)
    \/ Migration
    \/ ReconcileBindingsReturn
    \/ Returned
    \/ OtherWriter
    \/ Sync

SpecLabels == Init /\ [][NextLabels]_vars

\* the label migration with another client labelling the objects it shares
NextWriters ==
    \/ \E c \in CRTBs : Updated(c)
    \/ Migration
    \/ ReconcileBindingsReturn
    \/ Returned
    \/ LabelWriter
    \/ Sync

\* a cluster upgraded from a release before 2.5: both CRTBs share its derived objects,
\* which are still to migrate
WritersInit ==
    /\ Init
    /\ crbs = LegacyCRBStore(CRTBs)
    /\ rbs = LegacyRBStore(CRTBs, Projects)
    /\ reqs = {}
    /\ ~ownerRole

SpecWriters == WritersInit /\ [][NextWriters]_vars

(***************************************************************************)
(* reconcileSubject on every binding                                        *)
(***************************************************************************)
SubjectInit ==
    /\ subj \in [binding : Bindings, ensure : EnsureAnswers, get : GetAnswers,
                  out : {NoResult}, returned : {FALSE}]
    /\ crtbStore = [c \in CRTBs |-> [exists |-> TRUE, labels |-> {}]]
    /\ crtbCache = crtbStore
    /\ crbs = <<>>
    /\ crbCache = crbs
    /\ rbs = <<>>
    /\ rbCache = rbs
    /\ reqs = {}
    /\ ownerRole = FALSE
    /\ pc = "idle"
    /\ run = NoRun
    /\ last = NothingYet
    /\ nEvents = 0
    /\ nFaults = 0
    /\ StoresIdle
    /\ ExtIdle

\* reconcileSubject returns
SubjectReturn ==
    /\ ~subj.returned
    /\ subj' = [subj EXCEPT !.out = ReconcileSubject(subj.binding, subj.ensure, subj.get),
                            !.returned = TRUE]
    /\ UNCHANGED <<storeVars, extVars, crtbStore, crtbCache, crbs, crbCache, rbs, rbCache, reqs,
                   ownerRole, pc, run, last, nEvents, nFaults>>

SpecSubject == SubjectInit /\ [][SubjectReturn]_vars

(***************************************************************************)
(* Properties of Remove (Spec)                                              *)
(***************************************************************************)
\* a handler invocation that is a call of Remove returns in this step
RemoveReturns == pc = "idle" /\ pc' = "returned" /\ last'.op = "Remove"

\* the labels l name CRTB c as an owner, by its provenance key or by its UID
RBOwnedBy(l, c) ==
    \/ <<GetRTBLabel(c), CrtbInProjectBindingOwner>> \in l
    \/ <<UID(c), CrtbInProjectBindingOwner>> \in l
CRBOwnedBy(l, c) ==
    \/ <<GetRTBLabel(c), MembershipBindingOwner>> \in l
    \/ <<UID(c), MembershipBindingOwner>> \in l
    \/ <<UID(c), MembershipBindingOwnerLegacy>> \in l

\* the RoleBindings the lister shows in the namespaces of the projects of c's namespace
\* with the label <provenance key of c>=crtb-in-project-binding-owner
LabelledFor(c) ==
    {id \in DOMAIN rbCache :
        /\ \E p \in Projects : ProjectNamespace(p) = Namespace(c) /\ id[1] = p
        /\ <<GetRTBLabel(c), CrtbInProjectBindingOwner>> \in rbCache[id]}

C2_SharedRoleBindingKept ==
    [][(RemoveReturns /\ last'.err = {}) =>
          \A id \in DOMAIN rbs :
             (/\ <<GetRTBLabel(last'.crtb), CrtbInProjectBindingOwner>> \in rbs[id]
              /\ \E c2 \in CRTBs \ {last'.crtb} :
                     crtbStore[c2].exists /\ RBOwnedBy(rbs[id], c2))
             => id \in DOMAIN rbs']_vars

\* C3: between handler invocations every RoleBinding and every ClusterRoleBinding that
\* exists carries an ownership label of at least one CRTB that exists.
C3_NoOrphans ==
    pc = "idle" =>
        /\ \A id \in DOMAIN rbs : \E c \in CRTBs : crtbStore[c].exists /\ RBOwnedBy(rbs[id], c)
        /\ \A n \in DOMAIN crbs : \E c \in CRTBs : crtbStore[c].exists /\ CRBOwnedBy(crbs[n], c)

(***************************************************************************)
(* Properties of the label migration (SpecLabels)                           *)
(***************************************************************************)
MigrationSteps == {"crbGet", "crbUpdate", "rbList", "rbGet", "rbUpdate", "crtbGet", "crtbUpdate"}
\* a call of Updated begins in this step and gets as far as reconcileLabels
UpdatedBegins == pc = "idle" /\ pc' # "idle" /\ run'.op = "Updated"
\* a call of Updated returns in this step
UpdatedReturns == pc # "returned" /\ pc' = "returned" /\ last'.op = "Updated"
\* the label migration of this call of Updated is over without an error
MigrationDone == pc = "bindings" /\ run.op = "Updated" /\ ~run.sentinel

\* C4 as the specification states it: once the migration of a CRTB has completed (the
\* CRTB carries the sentinel in the API server), a further run for that CRTB issues no Get
\* and no Update.
C4_SecondRunNoCalls == (run.op = "Updated" /\ run.migrated) => run.called = {}

\* C4 as the code has it: a run of the migration that is handed a CRTB object carrying the
\* sentinel label issues no Get and no Update on any ClusterRoleBinding, RoleBinding or
\* CRTB and leaves every object's labels as they are; a run handed an object without the
\* sentinel (the handler's own copy, or a lister's cache that has not caught up) goes
\* through the migration again and, when it succeeds, has updated the CRTB once more.
C4_ShortCircuitOnSentinel ==
    /\ [][(UpdatedBegins /\ run'.sentinel) =>
             /\ pc' = "bindings"
             /\ run'.called = {}
             /\ UNCHANGED <<crtbStore, crbs, rbs>>]_vars
    /\ [](pc \in MigrationSteps => ~run.sentinel)
    /\ [](MigrationDone => <<"Update", CRTBItem(run.crtb)>> \in run.called)

C4_Witness ==
    /\ pc = "bindings"
    /\ run.op = "Updated"
    /\ run.sentinel
    /\ run.called = {}
    /\ nEvents = 2
    /\ \E n \in DOMAIN crbs : <<rtbLabelUpdated, "true">> \in crbs[n]

\* C5: when a call of Updated returns after a Get or an Update of its label migration
\* failed on a ClusterRoleBinding or a RoleBinding (an API error, or conflicts to the last retry),
\* the error it returns holds every failure that occurred, and every ClusterRoleBinding
\* and RoleBinding the migration's selectors match was attempted.
C5_FailuresAggregated ==
    [][(UpdatedReturns /\ \E f \in last'.failures : f[1] # RBListItem) =>
          /\ last'.failures \subseteq last'.err
          /\ {CRBItem(n) : n \in ListLegacyCRBs(crbCache, last'.crtb)} \subseteq last'.attempted
          /\ {RBItem(id) : id \in ListLegacyRBs(rbCache, last'.crtb)} \subseteq last'.attempted]_vars

\* C6 as the specification states it: after a successful migration for CRTB c every
\* ClusterRoleBinding carrying <UID of c>=memberhsip-binding-owner and every RoleBinding
\* carrying <UID of c>=crtb-in-project-binding-owner carries the label of c's provenance
\* key and the label-updated marker.
C6_AllLegacyMigrated ==
    MigrationDone =>
        /\ \A n \in DOMAIN crbs :
              <<UID(run.crtb), MembershipBindingOwnerLegacy>> \in crbs[n] =>
                 {<<GetRTBLabel(run.crtb), MembershipBindingOwner>>,
                  <<rtbLabelUpdated, "true">>} \subseteq crbs[n]
        /\ \A id \in DOMAIN rbs :
              <<UID(run.crtb), CrtbInProjectBindingOwner>> \in rbs[id] =>
                 {<<GetRTBLabel(run.crtb), CrtbInProjectBindingOwner>>,
                  <<rtbLabelUpdated, "true">>} \subseteq rbs[id]

\* a step that removes no object and no label, and changes no ClusterRoleBinding or
\* RoleBinding but those the migration's lists returned
MigrationKeepsLabels ==
    /\ \A n \in DOMAIN crbs : n \in DOMAIN crbs' /\ crbs[n] \subseteq crbs'[n]
    /\ \A id \in DOMAIN rbs : id \in DOMAIN rbs' /\ rbs[id] \subseteq rbs'[id]
    /\ \A n \in DOMAIN crbs \ ListLegacyCRBs(crbCache, run.crtb) : crbs'[n] = crbs[n]
    /\ \A id \in DOMAIN rbs \ ListLegacyRBs(rbCache, run.crtb) : rbs'[id] = rbs[id]
    /\ \A c \in CRTBs : /\ crtbStore'[c].exists = crtbStore[c].exists
                         /\ crtbStore[c].labels \subseteq crtbStore'[c].labels

\* C6 as the code has it: a successful migration for CRTB c adds, to every
\* ClusterRoleBinding the lister returns for <UID of c>=memberhsip-binding-owner together
\* with the auxiliary requirements, the label <key of c>=membership-binding-owner and the
\* label-updated marker, and to every RoleBinding the lister returns for
\* <UID of c>=crtb-in-project-binding-owner together with the auxiliary requirements, the
\* label <key of c>=crtb-in-project-binding-owner and the marker; no step of the migration
\* removes an object or a label (the legacy label stays); and at the end the CRTB carries
\* crb-rb-labels-updated=true. An object that carries the legacy label but does not meet
\* the auxiliary requirements is left as it is.
C6_ListedMigrated ==
    /\ [](MigrationDone =>
             /\ \A n \in ListLegacyCRBs(crbCache, run.crtb) :
                   /\ n \in DOMAIN crbs
                   /\ {<<UID(run.crtb), MembershipBindingOwnerLegacy>>,
                       <<GetRTBLabel(run.crtb), MembershipBindingOwner>>,
                       <<rtbLabelUpdated, "true">>} \subseteq crbs[n]
             /\ \A id \in ListLegacyRBs(rbCache, run.crtb) :
                   /\ id \in DOMAIN rbs
                   /\ {<<UID(run.crtb), CrtbInProjectBindingOwner>>,
                       <<GetRTBLabel(run.crtb), CrtbInProjectBindingOwner>>,
                       <<rtbLabelUpdated, "true">>} \subseteq rbs[id]
             /\ <<RtbCrbRbLabelsUpdated, "true">> \in crtbStore[run.crtb].labels)
    /\ [][(pc \in MigrationSteps) => MigrationKeepsLabels]_vars

C6_Witness ==
    /\ MigrationDone
    /\ run.crtb = "crtb1"
    /\ ListLegacyCRBs(crbCache, "crtb1") = {LegacyCRB}
    /\ ListLegacyRBs(rbCache, "crtb1") = {LegacyRB("p1"), LegacyRB("p2")}
    /\ crbs[LegacyCRB] = {<<UID("crtb1"), MembershipBindingOwnerLegacy>>,
                          <<UID("crtb2"), MembershipBindingOwnerLegacy>>,
                          <<GetRTBLabel("crtb1"), MembershipBindingOwner>>,
                          <<rtbLabelUpdated, "true">>}
    /\ <<GetRTBLabel("crtb1"), CrtbInProjectBindingOwner>> \in rbs[LegacyRB("p2")]
    /\ <<RtbCrbRbLabelsUpdated, "true">> \in crtbStore["crtb1"].labels

(***************************************************************************)
(* Properties of reconcileSubject (SpecSubject)                             *)
(***************************************************************************)
NoGroup(b) == b.GroupName = Empty /\ b.GroupPrincipalName = Empty
OnlyPrincipal(b) == b.UserPrincipalName # Empty /\ b.UserName = Empty /\ NoGroup(b)
OnlyUserName(b) == b.UserName # Empty /\ b.UserPrincipalName = Empty /\ NoGroup(b)
BothUserFields(b) == b.UserName # Empty /\ b.UserPrincipalName # Empty
NoSubjectField(b) == b.UserName = Empty /\ b.UserPrincipalName = Empty /\ NoGroup(b)
\* the subject fields of b that are populated
Populated(b) ==
    {f \in {"UserName", "UserPrincipalName", "GroupName", "GroupPrincipalName"} : b[f] # Empty}

\* C7: for a binding with only the user principal name set, reconcileSubject calls
\* EnsureUser exactly once, with that principal and the display-name annotation, and no
\* other collaborator; when EnsureUser succeeds the binding comes back with UserName set
\* to the ensured user's name and nothing else changed, and when EnsureUser fails its
\* error is returned and UserName is still empty.
C7_EnsureUserOnce ==
    (subj.returned /\ OnlyPrincipal(subj.binding)) =>
        /\ subj.out.calls =
               <<[fn |-> "EnsureUser",
                  args |-> <<subj.binding.UserPrincipalName, subj.binding.DisplayName>>]>>
        /\ subj.ensure.err = Nil =>
               /\ subj.out.err = Nil
               /\ subj.out.binding = [subj.binding EXCEPT !.UserName = subj.ensure.Name]
        /\ subj.ensure.err # Nil =>
               /\ subj.out.err = subj.ensure.err
               /\ subj.out.binding.UserName = Empty

C7_Witness ==
    /\ subj.returned
    /\ OnlyPrincipal(subj.binding)
    /\ subj.ensure = [err |-> Nil, Name |-> UserB]
    /\ subj.out.binding.UserName = UserB
    /\ Len(subj.out.calls) = 1

\* C8: for a binding with user name and user principal name both set, reconcileSubject
\* returns the binding with every field as it was, no error, and calls neither EnsureUser
\* nor the user lister.
C8_FullySpecifiedNoOp ==
    (subj.returned /\ BothUserFields(subj.binding)) =>
        /\ subj.out.binding = subj.binding
        /\ subj.out.err = Nil
        /\ subj.out.calls = <<>>

C8_Witness ==
    /\ subj.returned
    /\ BothUserFields(subj.binding)
    /\ NoGroup(subj.binding)
    /\ subj.out.binding = subj.binding
    /\ subj.out.calls = <<>>

\* C9 as the specification states it: whenever reconcileSubject succeeds on a binding with
\* at most one subject field populated, the returned binding has both the name and the
\* principal name of the subject type present.
C9_BothPopulated ==
    (subj.returned /\ subj.out.err = Nil /\ Cardinality(Populated(subj.binding)) <= 1) =>
        /\ Populated(subj.binding) \subseteq {"UserName", "UserPrincipalName"} =>
               BothUserFields(subj.out.binding)
        /\ Populated(subj.binding) \subseteq {"GroupName", "GroupPrincipalName"} =>
               /\ subj.out.binding.GroupName # Empty
               /\ subj.out.binding.GroupPrincipalName # Empty

\* C9 as the code has it: when reconcileSubject succeeds on a binding with exactly one
\* subject field populated, then (a) only the user principal name set: the returned binding
\* has user name and user principal name both populated; (b) only the user name set: the
\* user principal name is the first principal id of the looked-up user that ends with the
\* user name, and stays empty when no id does; (c) only a group field set: the binding is
\* returned unchanged, the other group field still empty.
C9_PopulatedPerBranch ==
    (subj.returned /\ subj.out.err = Nil /\ Cardinality(Populated(subj.binding)) = 1) =>
        LET b == subj.binding
            out == subj.out.binding
            ids == subj.get.PrincipalIDs
            matching == {i \in 1..Len(ids) : HasSuffix(ids[i], b.UserName)}
        IN  /\ OnlyPrincipal(b) => BothUserFields(out) /\ out.UserPrincipalName = b.UserPrincipalName
            /\ OnlyUserName(b) =>
                   /\ out.UserName = b.UserName
                   /\ matching = {} => out.UserPrincipalName = Empty
                   /\ matching # {} =>
                          \E i \in matching : /\ \A j \in matching : i <= j
                                               /\ out.UserPrincipalName = ids[i]
            /\ ~NoGroup(b) => out = b

C9_Witness ==
    /\ subj.returned
    /\ subj.out.err = Nil
    /\ OnlyUserName(subj.binding)
    /\ subj.get.PrincipalIDs = <<PrincipalLocalB, PrincipalLocalA>>
    /\ subj.out.binding.UserPrincipalName = PrincipalLocalA

\* C10: for a binding with no subject field set reconcileSubject fails with the "has no
\* subject" error and returns no binding; with any subject field set it fails only when
\* the EnsureUser call or the user lookup it made failed, with that call's error.
C10_NoSubjectError ==
    subj.returned =>
        /\ NoSubjectField(subj.binding) =>
               subj.out.err = ErrNoSubject /\ subj.out.binding = NilBinding
        /\ (~NoSubjectField(subj.binding) /\ subj.out.err # Nil) =>
               \/ /\ subj.out.calls = <<EnsureUserCall(subj.binding)>>
                  /\ subj.ensure.err # Nil
                  /\ subj.out.err = subj.ensure.err
               \/ /\ subj.out.calls = <<UserGetCall(subj.binding)>>
                  /\ subj.get.err # Nil
                  /\ subj.out.err = subj.get.err

C10_Witness ==
    /\ subj.returned
    /\ NoSubjectField(subj.binding)
    /\ subj.out.err = ErrNoSubject
    /\ subj.out.binding = NilBinding

\* C11: for a binding with only the user name set, reconcileSubject calls the user lister
\* exactly once, with that name, and no other collaborator; when the lookup succeeds it
\* returns the binding without error, with UserPrincipalName set to the first of the user's
\* principal ids, in list order, that ends with the user name, or still empty when no id
\* does, and nothing else changed; when the lookup fails it returns the lookup's error.
C11_LookupByName ==
    (subj.returned /\ OnlyUserName(subj.binding)) =>
        LET b == subj.binding
            ids == subj.get.PrincipalIDs
            matching == {i \in 1..Len(ids) : HasSuffix(ids[i], b.UserName)}
        IN  /\ subj.out.calls = <<UserGetCall(b)>>
            /\ subj.get.err # Nil => subj.out.err = subj.get.err
            /\ subj.get.err = Nil =>
                   /\ subj.out.err = Nil
                   /\ matching = {} => subj.out.binding = b
                   /\ matching # {} =>
                          \E i \in matching :
                             /\ \A j \in 1..(i - 1) : ~HasSuffix(ids[j], b.UserName)
                             /\ subj.out.binding = [b EXCEPT !.UserPrincipalName = ids[i]]

C11_Witness ==
    /\ subj.returned
    /\ OnlyUserName(subj.binding)
    /\ subj.get = [err |-> Nil, PrincipalIDs |-> <<PrincipalGithubA, PrincipalLocalA>>]
    /\ subj.out.err = Nil
    /\ subj.out.binding.UserPrincipalName = PrincipalGithubA

(***************************************************************************)
(* Properties of Create and Updated (Spec)                                  *)
(***************************************************************************)
\* the errors reconcileSubject returns
SubjectErrors == {ErrEnsureUser, ErrUserGet, ErrNoSubject}
\* a call of Create or Updated returns in this step
HandlerReturns == pc # "returned" /\ pc' = "returned" /\ last'.op \in {"Create", "Updated"}
\* the subject of a binding that reconcileSubject resolved: a user name or a group
HasSubject(b) == b # NilBinding /\ (b.UserName # Empty \/ ~NoGroup(b))

\* C12: a call of Create or Updated whose subject resolution fails returns that error alone
\* and a nil object, in its first step: it made no call of the label migration, no cluster
\* lookup, no ensure of a membership binding and no grant, and left every CRTB,
\* ClusterRoleBinding and RoleBinding as it was; and a call gets past subject resolution
\* only with a binding that names a user or a group.
C12_SubjectFailureAborts ==
    /\ [][(/\ HandlerReturns
           /\ last'.failures = {}
           /\ last'.err \cap SubjectErrors # {}) =>
             /\ pc = "idle"
             /\ Cardinality(last'.err) = 1
             /\ last'.returned = NilBinding
             /\ last'.trace = <<>>
             /\ last'.called = {}
             /\ last'.listed = {}
             /\ UNCHANGED <<crtbStore, crbs, rbs>>]_vars
    /\ [](pc \in MigrationSteps \cup {"bindings"} => HasSubject(run.binding))

C12_Witness ==
    /\ pc = "returned"
    /\ last.op = "Updated"
    /\ last.failures = {}
    /\ last.err = {ErrEnsureUser}
    /\ last.returned = NilBinding
    /\ last.called = {}
    /\ ListLegacyCRBs(crbCache, last.crtb) # {}
    /\ ~LabelsUpdated(crtbCache[last.crtb].labels)

\* the label migration of the call in progress is over and returned no error
MigrationSucceeded(r) ==
    /\ r.failures = {}
    /\ r.sentinel \/ <<"Update", CRTBItem(r.crtb)>> \in r.called

\* C13: the label migration runs in calls of Updated only, after reconcileSubject has
\* resolved the subject; reconcileBindings makes its calls in the last step of a call, and
\* in a call of Updated only after the migration is over without an error; a call of
\* Updated whose migration returns an error returns it with a nil object and without a
\* call of reconcileBindings; a call of Create makes no call of the migration and leaves
\* the CRTBs as they are.
C13_MigrationBeforeSynthesis ==
    /\ [](pc \in MigrationSteps => (run.op = "Updated" /\ HasSubject(run.binding)))
    /\ []((pc = "bindings" /\ run.op = "Updated") => MigrationSucceeded(run))
    /\ [][(HandlerReturns /\ last'.trace # <<>>) => pc = "bindings"]_vars
    /\ [][(/\ HandlerReturns
           /\ last'.op = "Updated"
           /\ \/ last'.failures # {}
              \/ last'.err \cap {ErrRequirements, ErrCRBList} # {}) =>
             /\ pc # "bindings"
             /\ last'.trace = <<>>
             /\ last'.returned = NilBinding]_vars
    /\ [][(HandlerReturns /\ last'.op = "Create") =>
             /\ last'.called = {}
             /\ last'.listed = {}
             /\ UNCHANGED crtbStore]_vars

C13_Witness ==
    /\ pc = "returned"
    /\ last.op = "Updated"
    /\ last.err = {}
    /\ <<"Update", CRBItem(LegacyCRB)>> \in last.called
    /\ <<"Update", CRTBItem(last.crtb)>> \in last.called
    /\ Len(last.trace) > 3

(***************************************************************************)
(* Properties of reconcileBindings (Spec)                                   *)
(***************************************************************************)
\* reconcileBindings and with it a call of Create or Updated returns in this step
BindingsReturns == pc = "bindings" /\ pc' = "returned"
\* the names of the calls in a trace
CallsIn(trace) == {trace[i][1] : i \in 1..Len(trace)}
EnsureCall == "ensureClusterMembershipBinding"
GrantCalls == {"grantManagementPlanePrivileges",
               "grantManagementClusterScopedPrivilegesInProjectNamespace"}

\* C14: when the cluster is found and the role check answers not-found, reconcileBindings
\* returns no error, so that Create or Updated returns the binding without error, having
\* ensured no membership binding and granted no privilege and left every ClusterRoleBinding
\* and RoleBinding as it was; when the role check fails with another error,
\* reconcileBindings returns that error, again without an ensure or a grant.
C14_DanglingRoleSkipped ==
    [][(BindingsReturns /\ last'.env.cluster = "ok" /\ last'.env.roles # "ok") =>
          /\ last'.env.roles = "notFound" => last'.err = {} /\ last'.returned = run.binding
          /\ last'.env.roles = "err" => last'.err = {ErrRoles}
          /\ CallsIn(last'.trace) \cap ({EnsureCall} \cup GrantCalls) = {}
          /\ last'.trace[Len(last'.trace)][1] = "checkReferencedRoles"
          /\ UNCHANGED <<crbs, rbs>>]_vars

C14_Witness ==
    /\ pc = "returned"
    /\ last.op = "Create"
    /\ last.env.cluster = "ok"
    /\ last.env.roles = "notFound"
    /\ last.err = {}
    /\ HasSubject(last.returned)
    /\ crbs = <<>>

\* C15: when the cluster lookup fails or finds no cluster, reconcileBindings returns an
\* error (the lookup's, or "cluster was not found"), having made no call after the lookup:
\* no role check, no ensure of a membership binding, no grant; every ClusterRoleBinding and
\* RoleBinding is left as it was.
C15_ClusterUnresolved ==
    [][(BindingsReturns /\ last'.env.cluster # "ok") =>
          /\ last'.env.cluster = "err" => last'.err = {ErrClusterGet}
          /\ last'.env.cluster = "nil" => last'.err = {ErrClusterNotFound}
          /\ CallsIn(last'.trace) = {"clusterLister.Get"}
          /\ UNCHANGED <<crbs, rbs>>]_vars

C15_Witness ==
    /\ pc = "returned"
    /\ last.op = "Updated"
    /\ last.env.cluster = "nil"
    /\ last.err = {ErrClusterNotFound}
    /\ Len(last.trace) = 1
    /\ <<"Update", CRTBItem(last.crtb)>> \in last.called

\* the calls of a trace that are calls of fn
CallsOf(trace, fn) == {i \in 1..Len(trace) : trace[i][1] = fn}

\* C16: when the cluster is found, the role template exists and the binding names one
\* subject, a call of Create or Updated calls ensureClusterMembershipBinding exactly once,
\* for the role "c-1-clusterowner" on cluster c-1 when the role template is an owner role
\* and "c-1-clustermember" when it is not, with the CRTB's provenance key and the resolved
\* subject; unless that call fails, the ClusterRoleBinding granting that role to the subject
\* then exists and carries <provenance key>=membership-binding-owner, and no other
\* ClusterRoleBinding is created or changed.
C16_OneMembershipBinding ==
    [][(/\ BindingsReturns
        /\ last'.env.cluster = "ok"
        /\ last'.env.roles = "ok"
        /\ BuildSubjectFromRTB(run.binding).err = Nil) =>
          LET c == last'.crtb
              subject == [kind |-> "User", name |-> run.binding.UserName]
              roleName == IF ownerRole THEN "c-1-clusterowner" ELSE "c-1-clustermember"
              name == roleName \o "/User:" \o StrOf(run.binding.UserName)
              ensured == CallsOf(last'.trace, EnsureCall)
          IN  /\ Cardinality(ensured) = 1
              /\ \A i \in ensured :
                    last'.trace[i] = <<EnsureCall, roleName, GetRTBLabel(c), SubjectStr(subject)>>
              /\ last'.env.fail.at = "ensure" => UNCHANGED crbs
              /\ last'.env.fail.at # "ensure" =>
                    /\ DOMAIN crbs' = DOMAIN crbs \cup {name}
                    /\ <<GetRTBLabel(c), MembershipBindingOwner>> \in crbs'[name]
                    /\ \A n \in DOMAIN crbs \ {name} : crbs'[n] = crbs[n]]_vars

C16_Witness ==
    /\ pc = "returned"
    /\ last.op = "Create"
    /\ last.crtb = "crtb1"
    /\ last.err = {}
    /\ ownerRole
    /\ "c-1-clusterowner/User:u1" \in DOMAIN crbs
    /\ crbs["c-1-clusterowner/User:u1"] = {<<"c-1_crtb1", MembershipBindingOwner>>}
    /\ Cardinality(CallsOf(last.trace, EnsureCall)) = 1

GrantInProject == "grantManagementClusterScopedPrivilegesInProjectNamespace"
\* the projects, in the order of their calls, for which a trace holds a per-project grant
GrantedProjects(trace) ==
    LET grants == SelectSeq(trace, LAMBDA call : call[1] = GrantInProject)
    IN  [i \in 1..Len(grants) |-> grants[i][3]]
\* the projects of the namespace of CRTB c that have no deletion timestamp, in list order
LiveProjects(c, deleting) ==
    SelectSeq(ProjectsOf(Namespace(c)), LAMBDA p : p \notin deleting)

\* C17: a call of Create or Updated that gets as far as the list of the projects makes the
\* per-project grant for no project that has a deletion timestamp, and creates or changes
\* no RoleBinding in such a project's namespace; when no grant fails, the grant is made for
\* every project of the CRTB's namespace without a deletion timestamp, in list order, those
\* listed after a terminating project included.
C17_TerminatingProjectsSkipped ==
    [][(BindingsReturns /\ "projectLister.List" \in CallsIn(last'.trace)
                        /\ last'.env.fail.at # "projectList") =>
          LET granted == GrantedProjects(last'.trace)
              deleting == last'.env.deleting
          IN  /\ \A i \in 1..Len(granted) : granted[i] \notin deleting
              /\ \A id \in DOMAIN rbs' :
                    id[1] \in deleting => id \in DOMAIN rbs /\ rbs'[id] = rbs[id]
              /\ last'.env.fail = NoFault =>
                    /\ granted = LiveProjects(last'.crtb, deleting)
                    /\ last'.err = {}]_vars

C17_Witness ==
    /\ pc = "returned"
    /\ last.op = "Create"
    /\ last.crtb = "crtb1"
    /\ last.err = {}
    /\ last.env.deleting = {"p1"}
    /\ GrantedProjects(last.trace) = <<"p2">>
    /\ DOMAIN rbs = {LegacyRB("p2")}
    /\ <<GetRTBLabel("crtb1"), CrtbInProjectBindingOwner>> \in rbs[LegacyRB("p2")]

\* C18: when the per-project grant fails for one project during a call of Create or
\* Updated, the grant is still made for every project of the CRTB's namespace without a
\* deletion timestamp that is listed after it.
C18_GrantFailureContinues ==
    [][(BindingsReturns /\ last'.env.fail.at = "grant") =>
          GrantedProjects(last'.trace) = LiveProjects(last'.crtb, last'.env.deleting)]_vars

(***************************************************************************)
(* The steps of Remove (Spec)                                               *)
(***************************************************************************)
\* the three steps of Remove, in the order of lines 97-105
RemoveSteps == <<"reconcileClusterMembershipBindingForDelete",
                 "removeMGMTClusterScopedPrivilegesInProjectNamespace",
                 "removeAuthV2Permissions">>
\* the steps a finished call of Remove made, in order
StepsMade(trace) == [i \in 1..Len(trace) |-> trace[i][1]]

\* C19: a call of Remove makes its steps in the order: delete the membership binding of
\* the provenance key, delete the labelled RoleBindings in the project namespaces, remove
\* the auth-v2 permissions; the steps made are the first one, two or three of these; a
\* step that fails is the last step made and its error is returned, with a nil object; and
\* Remove returns no error only when all three steps were made and none failed. After the
\* first step no ClusterRoleBinding carries <provenance key>=membership-binding-owner.
C19_RemoveStepsInOrder ==
    [][RemoveReturns =>
          LET made == StepsMade(last'.trace)
              fail == last'.env.fail
              key == GetRTBLabel(last'.crtb)
          IN  /\ Len(made) \in 1..3
              /\ made = SubSeq(RemoveSteps, 1, Len(made))
              /\ last'.returned = NilBinding
              /\ last'.err = {} => Len(made) = 3 /\ fail.at \notin {"membership", "projectList", "rbList", "authV2"}
              /\ Len(made) < 3 => last'.err # {}
              /\ fail.at = "membership" =>
                    /\ made = <<RemoveSteps[1]>>
                    /\ last'.err = {ErrMembershipDelete}
                    /\ UNCHANGED <<crbs, rbs>>
              /\ fail.at = "projectList" =>
                    /\ Len(made) = 2
                    /\ last'.err = {ErrProjectList}
                    /\ UNCHANGED rbs
              /\ fail.at = "rbList" => Len(made) = 2 /\ last'.err \subseteq {ErrRBList, ErrNotFound}
              /\ (fail.at = "delete" /\ \E id \in LabelledFor(last'.crtb) : id[1] = fail.p) =>
                    Len(made) = 2 /\ last'.err \subseteq {ErrDelete, ErrNotFound}
              /\ (fail.at = "authV2" /\ Len(made) = 3) => last'.err = {ErrAuthV2}
              /\ fail.at # "membership" =>
                    \A n \in DOMAIN crbs' : <<key, MembershipBindingOwner>> \notin crbs'[n]]_vars

C19_Witness ==
    /\ pc = "returned"
    /\ last.op = "Remove"
    /\ last.crtb = "crtb2"
    /\ last.env.fail.at = "authV2"
    /\ last.err = {ErrAuthV2}
    /\ StepsMade(last.trace) = RemoveSteps
    /\ last.deleted = {LegacyRB("p2")}
    /\ crbs = <<>>

(***************************************************************************)
(* The retries of the label migration (SpecLabels)                          *)
(***************************************************************************)
\* the calls the retry loop of the item in hand can still make: a Get and an Update in
\* each attempt left
CallsLeftInItem ==
    2 * (Steps - run.attempt) + (IF pc \in {"crbGet", "rbGet", "crtbGet"} THEN 2 ELSE 1)
\* an upper bound of the calls the migration in progress can still make
CallsLeft ==
    LET perItem == 2 * Steps
        rbPhase == 1 + Cardinality(DOMAIN rbCache) * perItem
    IN  IF pc \in {"crbGet", "crbUpdate"}
        THEN (Len(run.crbTodo) - 1) * perItem + CallsLeftInItem + rbPhase + perItem
        ELSE IF pc = "rbList" THEN rbPhase + perItem
        ELSE IF pc \in {"rbGet", "rbUpdate"}
        THEN (Len(run.rbTodo) - 1) * perItem + CallsLeftInItem + perItem
        ELSE IF pc \in {"crtbGet", "crtbUpdate"} THEN CallsLeftInItem
        ELSE 0
\* a step of the handler within the label migration (not one of another writer)
MigrationStep == pc \in MigrationSteps /\ (pc' # pc \/ run'.called # run.called)

\* the retries are bounded and the migration terminates: no item is tried more than Steps
\* times, an Update is tried again only after a conflict, an error other than a conflict
\* ends the item's retries at once, and every step of the migration lowers the number of
\* calls it can still make, whatever other writers do
RetriesBounded ==
    /\ [](pc \in MigrationSteps => run.attempt \in 1..Steps)
    /\ [][(MigrationStep /\ run'.attempt = run.attempt + 1) =>
             /\ pc \in {"crbUpdate", "rbUpdate", "crtbUpdate"}
             /\ ~run.fresh
             /\ nFaults' = nFaults
             /\ run'.failures = run.failures]_vars
    /\ [][(MigrationStep /\ nFaults' = nFaults + 1) =>
             /\ pc' \notin {"crbUpdate", "rbUpdate", "crtbUpdate"}
             /\ pc' \in MigrationSteps => run'.attempt = 1
             /\ pc' = "returned" => last'.failures # {}
             /\ pc' # "returned" => run'.failures # run.failures]_vars
    /\ [][MigrationStep => CallsLeft' < CallsLeft]_vars

\* the failures of a finished migration that are conflicts to the last retry
Exhausted(failures) == {f \in failures : f[2] = ErrConflict}

\* C20: every update of the label migration is retried only after a conflict and at most
\* Steps times, an error other than a conflict ends the item's retries at once, the
\* migration terminates even if every update keeps conflicting, and when the retries of an
\* item are exhausted the error Updated returns from reconcileLabels holds that failure.
C20_BoundedRetriesSurfaced ==
    /\ RetriesBounded
    /\ [][(UpdatedReturns /\ Exhausted(last'.failures) # {}) =>
             Exhausted(last'.failures) \subseteq last'.err]_vars

(***************************************************************************)
(* Another client labelling the shared objects (SpecWriters)               *)
(***************************************************************************)
\* the migration's Update of the ClusterRoleBinding or RoleBinding it has read
UpdateStep == pc \in {"crbUpdate", "rbUpdate"} /\ pc' # pc
\* the labels the API server holds for the object being migrated, in a store
Target(cs, rs) == IF pc = "crbUpdate" THEN cs[Head(run.crbTodo)] ELSE rs[Head(run.rbTodo)]
TargetItem == IF pc = "crbUpdate" THEN CRBItem(Head(run.crbTodo)) ELSE RBItem(Head(run.rbTodo))
OwnershipLabel(c) ==
    IF pc = "crbUpdate" THEN <<GetRTBLabel(c), MembershipBindingOwner>>
    ELSE <<GetRTBLabel(c), CrtbInProjectBindingOwner>>
\* the retry loop goes back to its Get
ReadsAgain == pc' = (IF pc = "crbUpdate" THEN "crbGet" ELSE "rbGet") /\ run'.attempt = run.attempt + 1
\* the API server failed the Update for another reason than a conflict
UpdateFailedOtherwise == Failure(TargetItem, ErrAPI) \in run'.failures \cup last'.failures

\* C21: an Update of an object that another writer changed since the migration read it
\* writes nothing, and the migration reads the object again while it has attempts left;
\* an Update that goes through keeps every label the object carried, the other
\* writer's included, and adds the ownership label and the marker
C21_NoLostLabels ==
    [][UpdateStep =>
          /\ (~run.fresh) =>
                 /\ Target(crbs', rbs') = Target(crbs, rbs)
                 /\ RetryAfterConflict(run.attempt) => (ReadsAgain \/ UpdateFailedOtherwise)
          /\ Target(crbs', rbs') # Target(crbs, rbs) =>
                 /\ Target(crbs, rbs) \subseteq Target(crbs', rbs')
                 /\ OwnershipLabel(run.crtb) \in Target(crbs', rbs')
                 /\ <<rtbLabelUpdated, "true">> \in Target(crbs', rbs')]_vars

\* the first migration got through a ClusterRoleBinding that another writer labelled
\* between its read and its write: the object carries both labels
C21_Witness ==
    /\ nEvents = 1
    /\ pc = "rbList"
    /\ <<"Update", CRBItem(LegacyCRB)>> \in run.called
    /\ run.failures = {}
    /\ {OtherLabel, <<GetRTBLabel(run.crtb), MembershipBindingOwner>>,
        <<rtbLabelUpdated, "true">>} \subseteq crbs[LegacyCRB]

(***************************************************************************)
(* Events delivered again (Spec)                                           *)
(***************************************************************************)
\* Remove is delivered for a CRTB that an earlier Remove already took away: the API
\* server no longer holds it, the informer's cache still does; no call is made to fail
RemoveRedelivered ==
    /\ pc = "idle"
    /\ pc' = "returned"
    /\ last'.op = "Remove"
    /\ ~crtbStore[last'.crtb].exists
    /\ last'.env.fail = NoFault

\* C22: a Remove delivered again after it succeeded, the lister's cache still showing the
\* RoleBindings the first one deleted, returns no error and leaves the ClusterRoleBindings
\* and RoleBindings and their labels as the first delivery left them
C22_RemoveRepeatable ==
    [][RemoveRedelivered => (last'.err = {} /\ crbs' = crbs /\ rbs' = rbs)]_vars

(***************************************************************************)
(* Properties of the token store (SpecTokens)                              *)
(***************************************************************************)
\* a call of the token store is made and returns in this step
TokenCallStep == tokenCall = NoTokenCall /\ tokenCall' # NoTokenCall
\* the call is for a token that the API server holds for another user than the caller,
\* and secretCache shows it as the API server holds it
OthersToken ==
    /\ tokenCall'.name \in DOMAIN secrets
    /\ secrets[tokenCall'.name].userID # tokenCall'.user
    /\ tokenCall'.name \in DOMAIN secretCache
    /\ secretCache[tokenCall'.name] = secrets[tokenCall'.name]
\* the caller did not pass the full-permission check
NotAuthed == tokenCall'.sar # "allowed"

\* C23: a Create, Update, Get or Delete by a caller who does not pass the full-permission
\* check, for a token of another user (the owner the request names, or the owner of the
\* stored token), returns an error and creates, updates and deletes no secret
C23_CrossUserGated ==
    [][(TokenCallStep /\ tokenCall'.op \in {"Create", "Update", "Get", "Delete"} /\ NotAuthed) =>
          /\ (tokenCall'.op \in {"Create", "Update"} /\ tokenCall'.owner # tokenCall'.user) =>
                 (tokenCall'.err # TokenOK /\ secrets' = secrets)
          /\ OthersToken => (tokenCall'.err # TokenOK /\ secrets' = secrets)]_vars

C25_HashedBeforePersistence ==
    [][(TokenCallStep /\ tokenCall'.op = "Create" /\ tokenCall'.err = TokenOK) =>
          /\ secrets'[tokenCall'.name].hashedToken = CreateHash(tokenCall'.token.plaintextToken)
          /\ secrets'[tokenCall'.name].hashedToken # tokenCall'.token.plaintextToken]_vars

\* C26: when the SubjectAccessReview call fails, Create, Update, Get, Delete and List
\* return the error of the check, no secret is written or deleted, and no token and no
\* list is returned
C26_CheckFailurePropagated ==
    [][(TokenCallStep /\ tokenCall'.sar = "err") =>
          /\ tokenCall'.err = ErrCheck
          /\ secrets' = secrets
          /\ tokenCall'.token = NoToken
          /\ tokenCall'.items = {}]_vars

\* the review failed in a Delete of a token that the API server holds
C26_Witness ==
    /\ tokenCall.op = "Delete"
    /\ tokenCall.sar = "err"
    /\ tokenCall.name \in DOMAIN secrets

(***************************************************************************)
(* Properties of the user-activity store (SpecActivity)                    *)
(***************************************************************************)
\* a call of the user-activity store is made and returns in this step
UACallStep == uaCall = NoUACall /\ uaCall' # NoUACall
\* Create returns without error in this step
CreateSucceeds == UACallStep /\ uaCall'.op = "Create" /\ uaCall'.err = UAOK

\* C27: Create succeeds only for a name that encodes the user and the name of a token
\* that exists, and only when that user is the principal making the request
C27_CreateOnlyByTokenUser ==
    [][CreateSucceeds =>
          /\ uaCall'.tokenId \in DOMAIN tokens
          /\ uaCall'.name = setUserActivityName(tokens[uaCall'.tokenId].userID, uaCall'.tokenId)
          /\ uaCall'.principal = tokens[uaCall'.tokenId].userID]_vars

\* C28: a successful Create updates the token once, to the time of the request plus the
\* idle TTL in minutes, leaves the other tokens alone, and returns the time of the
\* request as LastActivity and the token's new timeout as CurrentTimeout
C28_IdleTimeoutExtended ==
    [][CreateSucceeds =>
          /\ uaCall'.updates = 1
          /\ tokens'[uaCall'.tokenId].lastIdleTimeout = uaCall'.now + uaCall'.ttl * Minute
          /\ tokens'[uaCall'.tokenId].userID = tokens[uaCall'.tokenId].userID
          /\ \A t \in DOMAIN tokens : t # uaCall'.tokenId => tokens'[t] = tokens[t]
          /\ DOMAIN tokens' = DOMAIN tokens
          /\ uaCall'.ua.lastActivity = TimeString(uaCall'.now)
          /\ uaCall'.ua.currentTimeout = TimeString(tokens'[uaCall'.tokenId].lastIdleTimeout)]_vars

\* a Create at a time after the start, with an idle TTL that is not zero, has succeeded
C28_Witness ==
    /\ uaCall.op = "Create"
    /\ uaCall.err = UAOK
    /\ uaCall.now > 0
    /\ uaCall.ttl > 0
    /\ tokens[uaCall.tokenId].lastIdleTimeout > uaCall.now

\* Get returns in this step
GetReturns == UACallStep /\ uaCall'.op = "Get"

\* C29: Get fails for a name that encodes no pair, for a pair whose token does not exist
\* and for a pair whose user is not the token's; for any other name it fails only when
\* the token cannot be read, and else returns a UserActivity of that name with the
\* token's id and the token's stored LastIdleTimeout as CurrentTimeout; it never updates
\* a token
C29_GetSymmetric ==
    [][GetReturns =>
          /\ tokens' = tokens
          /\ uaCall'.updates = 0
          /\ (\A u \in Users, t \in MgmtTokenNames : uaCall'.name # setUserActivityName(u, t)) =>
                 (uaCall'.err # UAOK /\ uaCall'.ua = NoUserActivity)
          /\ \A u \in Users, t \in MgmtTokenNames :
                 uaCall'.name = setUserActivityName(u, t) =>
                     IF t \notin DOMAIN tokens \/ tokens[t].userID # u
                     THEN uaCall'.err # UAOK /\ uaCall'.ua = NoUserActivity
                     ELSE \/ uaCall'.err = ErrTokenGet /\ uaCall'.ua = NoUserActivity
                          \/ /\ uaCall'.err = UAOK
                             /\ uaCall'.ua.name = uaCall'.name
                             /\ uaCall'.ua.tokenId = t
                             /\ uaCall'.ua.currentTimeout =
                                    TimeString(tokens[t].lastIdleTimeout)]_vars

\* a Get has reported a timeout that a Create set
C29_Witness ==
    /\ uaCall.op = "Get"
    /\ uaCall.err = UAOK
    /\ \E t \in DOMAIN tokens :
           /\ uaCall.ua.tokenId = t
           /\ tokens[t].lastIdleTimeout > ZeroTime
           /\ uaCall.ua.currentTimeout = TimeString(tokens[t].lastIdleTimeout)

\* C30: List, Update, Delete and Watch return an error and no object, read no token and
\* leave every token as it is
C30_UnsupportedVerbs ==
    [][(UACallStep /\ uaCall'.op \in {"List", "Update", "Delete", "Watch"}) =>
          /\ uaCall'.err # UAOK
          /\ uaCall'.ua = NoUserActivity
          /\ uaCall'.gets = 0
          /\ uaCall'.updates = 0
          /\ tokens' = tokens]_vars

\* Delete was asked for the user activity of a token whose timeout a Create had set
C30_Witness ==
    /\ uaCall.op = "Delete"
    /\ uaCall.err = ErrUnableDelete
    /\ \E t \in DOMAIN tokens :
           /\ uaCall.name = setUserActivityName(tokens[t].userID, t)
           /\ tokens[t].lastIdleTimeout > ZeroTime

(***************************************************************************)
(* Ownership, reads and the stored hash in the token store (SpecTokens)    *)
(***************************************************************************)
\* Update returns in this step
UpdateReturns == TokenCallStep /\ tokenCall'.op = "Update"

\* C32: an Update by a caller who does not pass the full-permission check, for the name
\* of a token stored for another user, leaves that token with its owner and its data,
\* whatever UserID the request carries
C32_UpdateOwnershipFromStore ==
    [][(UpdateReturns /\ NotAuthed /\ OthersToken) =>
          /\ tokenCall'.name \in DOMAIN secrets'
          /\ secrets'[tokenCall'.name].userID = secrets[tokenCall'.name].userID
          /\ secrets'[tokenCall'.name] = secrets[tokenCall'.name]]_vars

\* Get returns without error in this step
GetSucceeds == TokenCallStep /\ tokenCall'.op = "Get" /\ tokenCall'.err = TokenOK

\* C33: a Get that succeeds returns the token of that name, with the spec secretCache
\* holds for it and with empty hashed and plaintext values
C33_GetReturnsToken ==
    [][GetSucceeds =>
          /\ tokenCall'.token # NoToken
          /\ tokenCall'.token.name = tokenCall'.name
          /\ tokenCall'.token.userID = secretCache[tokenCall'.name].userID
          /\ tokenCall'.token.enabled = secretCache[tokenCall'.name].enabled
          /\ tokenCall'.token.hashedToken = ""
          /\ tokenCall'.token.plaintextToken = ""]_vars

\* List returns without error in this step
ListSucceeds == TokenCallStep /\ tokenCall'.op = "List" /\ tokenCall'.err = TokenOK

\* C34: a List returns the tokens of the caller, or every token for a caller who passes
\* the full-permission check, and no token of the list carries a hashed value
C34_ListOwnTokensNoHash ==
    [][ListSucceeds =>
          /\ {t.name : t \in tokenCall'.items} =
                 {n \in DOMAIN secretCache :
                     tokenCall'.sar = "allowed" \/ secretCache[n].userID = tokenCall'.user}
          /\ \A t \in tokenCall'.items : t.userID = secretCache[t.name].userID
          /\ \A t \in tokenCall'.items : t.hashedToken = ""]_vars

\* C35: a successful Update leaves the hashed value persisted for the token as it was
C35_UpdateKeepsHash ==
    [][(UpdateReturns /\ tokenCall'.err = TokenOK) =>
          secrets'[tokenCall'.name].hashedToken = secrets[tokenCall'.name].hashedToken]_vars

(***************************************************************************)
(* The sentinel of the label migration (SpecLabels)                        *)
(***************************************************************************)
Sentinel == <<RtbCrbRbLabelsUpdated, "true">>
\* the sentinel is written on a CRTB in this step
SentinelWritten ==
    \E c \in CRTBs : Sentinel \in crtbStore'[c].labels /\ Sentinel \notin crtbStore[c].labels

\* C36: the sentinel is written only by the migration's update of its own CRTB, after
\* every ClusterRoleBinding and RoleBinding it listed was updated without a failure; a
\* call of Updated whose migration fails leaves the sentinel of its CRTB as it found it
C36_SentinelOnlyAfterSuccess ==
    /\ [][SentinelWritten =>
             /\ pc = "crtbUpdate"
             /\ Sentinel \in crtbStore'[run.crtb].labels
             /\ run.failures = {}
             /\ run.returnErr = {}
             /\ \A item \in run.listed :
                    item \in run.attempted /\ <<"Update", item>> \in run.called]_vars
    /\ [][(/\ HandlerReturns
           /\ last'.op = "Updated"
           /\ \/ last'.failures # {}
              \/ last'.err \cap {ErrRequirements, ErrCRBList} # {}) =>
             /\ UNCHANGED crtbStore
             /\ (Sentinel \in crtbStore'[last'.crtb].labels) = last'.migrated]_vars

\* the sentinel is on a CRTB whose migration has updated a ClusterRoleBinding and a
\* RoleBinding
C36_Witness ==
    /\ pc = "bindings"
    /\ run.op = "Updated"
    /\ ~run.migrated
    /\ Sentinel \in crtbStore[run.crtb].labels
    /\ \E n \in DOMAIN crbs : <<"Update", CRBItem(n)>> \in run.called
    /\ \E id \in DOMAIN rbs : <<"Update", RBItem(id)>> \in run.called

(***************************************************************************)
(* Failures of the user-activity Create (SpecActivity)                     *)
(***************************************************************************)
\* Create returns in this step with an error of its validation: an object of another
\* type, a token that cannot be read, a name that does not match
CreateRejected ==
    /\ UACallStep
    /\ uaCall'.op = "Create"
    /\ uaCall'.err \in {ErrCast, ErrTokenGet, ErrUAName, ErrTokenName}

\* C37: a Create that fails leaves every token as it was, and one that fails its
\* validation does not call tokenController.Update
C37_FailedCreateLeavesTokens ==
    [][(UACallStep /\ uaCall'.op = "Create" /\ uaCall'.err # UAOK) =>
          /\ tokens' = tokens
          /\ uaCall'.ua = NoUserActivity
          /\ CreateRejected => uaCall'.updates = 0]_vars

\* a Create with another user's name was rejected for a token whose timeout an earlier
\* Create had set
C37_Witness ==
    /\ uaCall.op = "Create"
    /\ uaCall.err = ErrUAName
    /\ uaCall.updates = 0
    /\ uaCall.tokenId \in DOMAIN tokens
    /\ tokens[uaCall.tokenId].lastIdleTimeout > ZeroTime
    /\ uaCall.now + uaCall.ttl * Minute # tokens[uaCall.tokenId].lastIdleTimeout

(***************************************************************************)
(* Dispatch of the extension API server (SpecAPI)                          *)
(***************************************************************************)
\* a request is served in this step
RequestStep == apiCall = NoAPICall /\ apiCall' # NoAPICall
\* the request went to the delegate registered under gvr, once and with this namespace,
\* or, with none registered, got a 404 and reached no delegate
DispatchedTo(delegates, gvr, namespace) ==
    IF gvr \in DOMAIN delegates
    THEN apiCall'.invoked = <<<<delegates[gvr], namespace>>>>
    ELSE apiCall'.status = StatusNotFound /\ apiCall'.invoked = <<>>

\* C38: with the routes of a group/version registered, a request for
\* /apis/<group>/<version>/<resource>, also followed by an object name, goes once to the
\* handler registered for the cluster-scoped resource, with the empty namespace; one for
\* /apis/<group>/<version>/namespaces/<ns>/<resource> goes once to the handler registered
\* for the namespaced resource, with <ns>; without such a handler the answer is 404 and
\* no handler runs
C38_DispatchByScope ==
    [][RequestStep =>
          \A gv \in GroupVersions, tail \in RequestTails \ {<<>>}, trailing \in {<<>>, <<Slash>>} :
              (/\ <<"resource", gv>> \in router
               /\ apiCall'.path = PathOf(<<"apis", gv[1], gv[2]>> \o tail) \o trailing) =>
                  IF tail[1] = "namespaces"
                  THEN Len(tail) >= 3 =>
                           DispatchedTo(apiServer.namespacedDelegates, GVR(gv, tail[3]), tail[2])
                  ELSE DispatchedTo(apiServer.delegates, GVR(gv, tail[1]), "")]_vars

\* C39: a request whose path lacks the namespace or the resource after "namespaces" never
\* makes the server index past the end of the segments, and the namespaced handler
\* answers it with 404
C39_NoIndexPastEnd ==
    [][RequestStep =>
          LET list == Split(Trim(apiCall'.path))
          IN  (Len(list) < 6 \/ list[4] # "namespaces") =>
                  /\ apiCall'.status # StatusPanic
                  /\ (\E gv \in Routed(router, "namespaced") :
                          HasPrefix(apiCall'.path, NamespacedPattern(gv))) =>
                         apiCall'.status = StatusNotFound]_vars

(***************************************************************************)
(* Deleting the bindings of a user (SpecLifecycle)                         *)
(***************************************************************************)
\* deleteAllCRTB or deleteAllPRTB returns in this step
ULCallStep == ulCall = NoULCall /\ ulCall' # NoULCall
\* the call is the one the expectation of the mock describes
MeetsExpectation(call, expectation) ==
    /\ call.method = expectation.method
    /\ expectation.name \in {GomockAny, call.name}
    /\ call.method = "DeleteNamespaced" => expectation.namespace \in {GomockAny, call.namespace}

MachinesListStep == machinesCall = NoMachinesCall /\ machinesCall' # NoMachinesCall
\* the labels satisfy every requirement of the selector
Selected(item, label) ==
    \A r \in label :
        \/ r.operator = "=" /\ \E kv \in item.labels : kv[1] = r.key /\ kv[2] = r.value
        \/ r.operator = "!=" /\ \A kv \in item.labels : kv[1] = r.key => kv[2] # r.value
\* the positions of the items of the tracker's list that the selector selects
SelectedAt(label) == {i \in 1..Len(fake.items) : Selected(fake.items[i], label)}

\* C40: when the fake returns a list, List returns the items of that list whose labels
\* match the selector, each once and in the order of the list, all of them without a
\* selector, with the error the fake returned; when the fake returns no object, List
\* returns nil and that error
C40_ListFilteredByLabels ==
    [][MachinesListStep =>
          LET c == machinesCall'
              at == SelectedAt(c.label)
          IN  IF fake.reaction = "nil and error"
              THEN c.result = NoList /\ c.err = ErrReactor
              ELSE /\ ~c.result.nil
                   /\ Len(c.result.items) = Cardinality(at)
                   /\ \A i \in at :
                          c.result.items[Cardinality({j \in at : j <= i})] = fake.items[i]
                   /\ c.label = {} => c.result.items = fake.items
                   /\ c.err = IF fake.reaction = "tracker" THEN FakeOK ELSE ErrReactor]_vars

\* of two machines in the tracker the selector selected the second only
C40_Witness ==
    /\ machinesCall.op = "List"
    /\ machinesCall.label # {}
    /\ Len(fake.items) = 2
    /\ machinesCall.result = [nil |-> FALSE, items |-> <<fake.items[2]>>]

====
